---- MODULE Spec2Model ----
(***************************************************************************)
(* Barcode verification station, FastAPI service (src/main.py) over the    *)
(* SQLModel tables of src/models.py.                                       *)
(*                                                                         *)
(* The service runs in one process on one asyncio event loop: every        *)
(* handler is an `async def` whose database calls are synchronous, so a    *)
(* handler runs from its first line to its return without another handler  *)
(* of the same process in between.  The database file is shared with other *)
(* processes (main.py:152-155 names them), which act between two database  *)
(* statements of a handler.                                                *)
(*                                                                         *)
(* Strings are sequences of one-character strings, so that strip() and the *)
(* character checks of the validators are computed, not assumed.           *)
(* Datetimes are minutes since the service was started at 00:00 of day 0.  *)
(***************************************************************************)
EXTENDS Integers, Sequences, FiniteSets, TLC

VARIABLES
    jobs,          \* table jobs: sequence of rows, primary key = index
    scans,         \* table scans: sequence of rows, primary key = index
    shift_stats,   \* table shift_stats: function date -> row (date is unique)
    pin_attempts,  \* main.py:82, client address -> list of attempt times
    sse_queues,    \* main.py:182, list of subscriber queues
    now,           \* datetime.now()
    resp,          \* the response of the last request handled
    pin_failures,  \* history: client address -> times of its attempts answered 403
    end_pc,        \* position of the end_job request in flight, if any
    end_ctx,       \* the locals of the end_job request in flight
    restores,      \* history: the number of restore requests that replaced the store
    sse_stop,      \* the clients of /api/events that are gone, and shutdown_event
    status_body,   \* the body of the last answer of GET /api/status
    threads,       \* app.py: the request threads of the Flask server, their position and locals
    sse_subscribers, \* app.py:84, the list of MessageQueue objects
    message_queues \* app.py:342-357, the MessageQueue of each /api/events stream, and the stream's position

\* the state of the Flask variant, app.py
appvars == <<threads, sse_subscribers, message_queues>>

vars == <<jobs, scans, shift_stats, pin_attempts, sse_queues, now, resp,
          pin_failures, end_pc, end_ctx, restores, sse_stop, status_body,
          appvars>>

dbvars == <<jobs, scans, shift_stats>>

----------------------------------------------------------------------------
(* Bounds *)

MaxJobs == 2
MaxScans == 2
MaxDay == 1
PinMaxMinute == 15
TickMinutes == 5
MaxQueue == 2
MaxRestores == 1
LockoutMaxMinute == 20
StatusMaxMinute == 5

----------------------------------------------------------------------------
(* Program constants *)

MAX_PIN_ATTEMPTS == 5
PIN_LOCKOUT_MINUTES == 15
max_retries == 3
MaxBarcodeLen == 200
MaxJobIdLen == 100
MaxPieces == 10000
MaxTarget == 1000000
MinPinLen == 4
MaxPinLen == 20

\* main.py sse_stream: asyncio.Queue() is made with the default maxsize
queue_maxsize == 0

SUPERVISOR_PIN == <<"1", "2", "3", "4">>

MinutesPerDay == 24 * 60

NoTime == 0 - 1

Date(t) == t \div MinutesPerDay

today == Date(now)

----------------------------------------------------------------------------
(* Characters and strings *)

Whitespace == {" ", "\t", "\n", "\r"}

\* ord(c) of the characters the inputs are built from; NUL is chr(0), BEL is
\* chr(7)
OrdTable ==
    ("NUL" :> 0) @@ ("BEL" :> 7) @@ ("\t" :> 9) @@ ("\n" :> 10) @@ ("\r" :> 13) @@
    (" " :> 32) @@ ("-" :> 45) @@ ("/" :> 47) @@ ("0" :> 48) @@
    ("1" :> 49) @@ ("2" :> 50) @@ ("3" :> 51) @@ ("4" :> 52) @@
    ("\"" :> 34) @@ ("&" :> 38) @@ ("'" :> 39) @@ (";" :> 59) @@
    ("<" :> 60) @@ (">" :> 62) @@ ("\\" :> 92) @@ ("A" :> 65) @@ ("B" :> 66) @@ ("J" :> 74) @@
    ("X" :> 88) @@ ("a" :> 97)

Ord(c) == OrdTable[c]

IsAlnum(c) ==
    c \in {"0", "1", "2", "3", "4", "A", "B", "J", "X", "a"}

RECURSIVE LStrip(_)
LStrip(s) ==
    IF s # <<>> /\ Head(s) \in Whitespace THEN LStrip(Tail(s)) ELSE s

RECURSIVE RStrip(_)
RStrip(s) ==
    IF s # <<>> /\ s[Len(s)] \in Whitespace
    THEN RStrip(SubSeq(s, 1, Len(s) - 1))
    ELSE s

\* a trim that removes nothing
strip_nothing(s) == s

\* str.strip()
Strip(s) == RStrip(LStrip(s))

Chars(s) == {s[i] : i \in 1..Len(s)}

----------------------------------------------------------------------------
(* Request validation, src/models.py *)

\* JobStartRequest.validate_job_id: the validated value, <<>> standing for None
JobIdDangerous == {"<", ">", "\"", "'", "&", ";", "\\", "/", "NUL"}

validate_job_id(v) ==
    LET w == Strip(v) IN
    IF w = <<>> THEN [ok |-> TRUE, v |-> <<>>]
    ELSE IF Len(w) > MaxJobIdLen THEN [ok |-> FALSE, v |-> w]
    ELSE IF Chars(w) \cap JobIdDangerous # {} THEN [ok |-> FALSE, v |-> w]
    ELSE IF \E c \in Chars(w) : Ord(c) < 32 THEN [ok |-> FALSE, v |-> w]
    ELSE [ok |-> TRUE, v |-> w]

\* JobStartRequest.validate_barcode
BarcodeDangerous == {"<", ">", "\"", "'", "&", ";", "\\", "NUL"}

\* a validator that exempts no control character
validate_barcode_no_exemption(v) ==
    LET w == Strip(v) IN
    IF v = <<>> THEN [ok |-> FALSE, v |-> v]
    ELSE IF w = <<>> THEN [ok |-> FALSE, v |-> w]
    ELSE IF Len(w) > MaxBarcodeLen THEN [ok |-> FALSE, v |-> w]
    ELSE IF Chars(w) \cap BarcodeDangerous # {} THEN [ok |-> FALSE, v |-> w]
    ELSE IF \E c \in Chars(w) : Ord(c) < 32 THEN [ok |-> FALSE, v |-> w]
    ELSE [ok |-> TRUE, v |-> w]

validate_barcode(v) ==
    LET w == Strip(v) IN
    IF v = <<>> THEN [ok |-> FALSE, v |-> v]
    ELSE IF w = <<>> THEN [ok |-> FALSE, v |-> w]
    ELSE IF Len(w) > MaxBarcodeLen THEN [ok |-> FALSE, v |-> w]
    ELSE IF Len(w) < 1 THEN [ok |-> FALSE, v |-> w]
    ELSE IF Chars(w) \cap BarcodeDangerous # {} THEN [ok |-> FALSE, v |-> w]
    ELSE IF \E c \in Chars(w) : Ord(c) < 32 /\ c \notin {"\t", "\n", "\r"}
         THEN [ok |-> FALSE, v |-> w]
    ELSE [ok |-> TRUE, v |-> w]

\* a check of the pieces that lets 0 through
validate_pieces_from_zero(v) == v >= 0 /\ v <= MaxPieces

\* JobStartRequest.validate_pieces
validate_pieces(v) == v >= 1 /\ v <= MaxPieces

\* JobStartRequest.validate_target
validate_target(v) == v >= 0 /\ v <= MaxTarget

\* JobEndRequest.validate_pin
validate_pin(v) ==
    LET w == Strip(v) IN
    IF v = <<>> THEN [ok |-> FALSE, v |-> v]
    ELSE IF Len(w) < MinPinLen THEN [ok |-> FALSE, v |-> w]
    ELSE IF Len(w) > MaxPinLen THEN [ok |-> FALSE, v |-> w]
    ELSE IF \E c \in Chars(w) : ~IsAlnum(c) THEN [ok |-> FALSE, v |-> w]
    ELSE [ok |-> TRUE, v |-> w]

----------------------------------------------------------------------------
(* Rows and queries *)

\* models.py Job(...) with the column defaults
NewJob(job_id, expected_barcode, pieces_per_shipper, target_quantity, start_time, is_active, end_time) ==
    [job_id |-> job_id,
     expected_barcode |-> expected_barcode,
     pieces_per_shipper |-> pieces_per_shipper,
     target_quantity |-> target_quantity,
     start_time |-> start_time,
     end_time |-> end_time,
     is_active |-> is_active,
     cached_pass_count |-> 0,
     cached_fail_count |-> 0,
     cached_total_scans |-> 0]

\* models.py ShiftStats(date=...) with the column defaults
NewShiftStats ==
    [total_shippers |-> 0, total_pieces |-> 0, total_pass |-> 0,
     total_fail |-> 0, jobs_completed |-> 0]

\* pieces counted for every scan, passed or failed
total_pieces_of_all_scans(job) ==
    job.cached_total_scans * job.pieces_per_shipper

\* Job.total_pieces
total_pieces(job) == job.cached_pass_count * job.pieces_per_shipper

Max(a, b) == IF a >= b THEN a ELSE b

SetMin(S) == CHOOSE x \in S : \A y \in S : x <= y

ActiveJobs == {i \in DOMAIN jobs : jobs[i].is_active}

\* a query without the condition on is_active
first_job == IF jobs = <<>> THEN 0 ELSE SetMin(DOMAIN jobs)

\* select(Job).where(Job.is_active == True) ... .first(); 0 stands for None
FirstActive == IF ActiveJobs = {} THEN 0 ELSE SetMin(ActiveJobs)

----------------------------------------------------------------------------
(* Event broadcast *)

\* a broadcast that puts the message on every queue twice
notify_clients_twice(queues, event_type, data) ==
    [i \in DOMAIN queues |->
        [queues[i] EXCEPT
            !.q = @ \o << [event |-> event_type, data |-> data],
                          [event |-> event_type, data |-> data] >>]]

\* main.py notify_clients: the message is put on every registered queue
notify_clients(queues, event_type, data) ==
    [i \in DOMAIN queues |->
        [queues[i] EXCEPT !.q = Append(@, [event |-> event_type, data |-> data])]]

QueuesHaveRoom == \A i \in DOMAIN sse_queues : Len(sse_queues[i].q) < MaxQueue

\* a queue that makes put wait as soon as one message is unread
put_blocks_when_unread(q) == Len(q) >= 1

\* asyncio.Queue.put waits while the queue is full, and a queue made with
\* maxsize <= 0 is never full
put_blocks(q) == queue_maxsize > 0 /\ Len(q) >= queue_maxsize

\* await queue.put(message) returns on every registered queue
PutReturns == \A i \in DOMAIN sse_queues : ~put_blocks(sse_queues[i].q)

\* what the client is answered: the status code, the job_id the body names,
\* the scan status of the body; pin tells whether the request's PIN was the
\* supervisor's; recent is the recent_scans of a scan result, as primary keys
Response(op, status, job_id, scan) ==
    [op |-> op, status |-> status, job_id |-> job_id, scan |-> scan,
     pin |-> "-", recent |-> <<>>]

PinResponse(op, status, job_id, success) ==
    [op |-> op, status |-> status, job_id |-> job_id, scan |-> "-",
     pin |-> IF success THEN "correct" ELSE "wrong", recent |-> <<>>]

\* sorted(ids, key=timestamp, reverse=True) over a table of scans: by
\* descending timestamp, equal timestamps staying in the order of the input
RECURSIVE InsertNewestFirst(_, _, _)
InsertNewestFirst(table, sorted, id) ==
    IF sorted = <<>> THEN <<id>>
    ELSE IF table[sorted[Len(sorted)]].timestamp >= table[id].timestamp
    THEN Append(sorted, id)
    ELSE Append(InsertNewestFirst(table, SubSeq(sorted, 1, Len(sorted) - 1), id),
                sorted[Len(sorted)])

RECURSIVE SortedNewestFirst(_, _)
SortedNewestFirst(table, ids) ==
    IF ids = <<>> THEN <<>>
    ELSE InsertNewestFirst(table,
             SortedNewestFirst(table, SubSeq(ids, 1, Len(ids) - 1)),
             ids[Len(ids)])

\* the primary keys of the scans of job j in a table of scans, ascending
ScanIds(table, j) ==
    SelectSeq([i \in 1..Len(table) |-> i], LAMBDA i : table[i].job_id = j)

\* Job.recent_scans(limit): sorted by timestamp, newest first, cut at limit
recent_scans(table, j, limit) ==
    LET sorted == SortedNewestFirst(table, ScanIds(table, j))
    IN SubSeq(sorted, 1, IF Len(sorted) < limit THEN Len(sorted) ELSE limit)

\* ScanResultResponse: recent_scans=job.recent_scans(8)
RecentLimit == 8

\* JobRead of no job
NoJobRead ==
    [id |-> 0, job_id |-> <<>>, expected_barcode |-> <<>>,
     pieces_per_shipper |-> 0, target_quantity |-> 0, start_time |-> NoTime,
     is_active |-> FALSE, pass_count |-> 0, fail_count |-> 0,
     total_scans |-> 0, total_pieces |-> 0, pass_rate |-> 0, elapsed |-> 0,
     scans_this_hour |-> 0, pieces_this_hour |-> 0, scans_prev_hour |-> 0,
     pieces_prev_hour |-> 0]

\* app.run(threaded=True): the threads that serve requests, one request each
AppThreads == {"t1", "t2"}

\* the clients of the Flask /api/events
Streams == {"s1", "s2"}

\* a thread between requests.  i is the position of the list iterator of
\* notify_clients, message its message; registered is history: the queues
\* in the registry when the loop began
IdleThread == [pc |-> "idle", expected |-> <<>>, i |-> 0, message |-> [event |-> "none", data |-> 0], registered |-> {}]

\* a stream that has not been requested: MessageQueue() not yet made.
\* received is history: the messages the stream has yielded
NoStream == [pc |-> "none", messages |-> <<>>, event |-> FALSE, received |-> <<>>]

\* the body of no answer yet
NoStatus ==
    [has_job |-> FALSE, active_job |-> NoJobRead, shift |-> NewShiftStats,
     server_time |-> NoTime]

----------------------------------------------------------------------------
(* Initial state: the tables are created and lifespan has made today's     *)
(* ShiftStats row                                                          *)

Clients == {"10.0.0.1", "10.0.0.2"}

Init ==
    /\ jobs = <<>>
    /\ scans = <<>>
    /\ shift_stats = (0 :> NewShiftStats)
    /\ pin_attempts = [ip \in Clients |-> <<>>]
    /\ sse_queues = <<>>
    /\ now = 0
    /\ resp = Response("none", 0, <<>>, "-")
    /\ pin_failures = [ip \in Clients |-> <<>>]
    /\ end_pc = "idle"
    /\ end_ctx = [job |-> 0, day |-> 0]
    /\ restores = 0
    /\ sse_stop = [gone |-> {}, shutdown |-> FALSE]
    /\ status_body = NoStatus
    /\ threads = [t \in AppThreads |-> IdleThread]
    /\ sse_subscribers = <<>>
    /\ message_queues = [c \in Streams |-> NoStream]

----------------------------------------------------------------------------
(* POST /api/job/start *)

\* a select with the filter reversed: the first job that has ended
select_ended_for_update ==
    IF \E i \in DOMAIN jobs : ~jobs[i].is_active
    THEN SetMin({i \in DOMAIN jobs : ~jobs[i].is_active})
    ELSE 0

\* lines 290-294: the active job the start request finds, 0 for None
select_active_for_update == FirstActive

\* an error that names the job_id of the request
conflict_error_requested(active_job, requested_job_id) == requested_job_id

\* line 301: the job_id the error of a refused start names
conflict_error(active_job, requested_job_id) == active_job.job_id

\* for attempt in range(max_retries): the number of attempts made when the
\* first `locked` of them raise OperationalError "database is locked"
RECURSIVE retry_loop(_, _)
retry_loop(attempt, locked) ==
    IF attempt < locked /\ attempt < max_retries - 1
    THEN retry_loop(attempt + 1, locked)
    ELSE attempt + 1

    \* `locked` attempts raise OperationalError "database is locked" before the
    \* commit; `fatal` makes the first attempt that is not locked raise another
    \* exception.  `late` is what is raised inside the try block after the
    \* commit, by session.refresh, JobRead.from_job or notify_clients (lines
    \* 315-321): "no" for nothing, "locked" for "database is locked", "error"
    \* for another exception.
start_job(job_id, expected_barcode, pieces_per_shipper, target_quantity, locked, fatal, late) ==
    LET vj == validate_job_id(job_id)
        vb == validate_barcode(expected_barcode)
        valid == /\ vj.ok
                 /\ vb.ok
                 /\ validate_pieces(pieces_per_shipper)
                 /\ validate_target(target_quantity)
        jid == IF vj.v = <<>> \/ Strip(vj.v) = <<>>
               THEN <<"JOB_", ToString(now)>>
               ELSE vj.v
        active == select_active_for_update
        job == NewJob(jid, vb.v, Max(1, pieces_per_shipper),
                      Max(0, target_quantity), now, TRUE, NoTime)
    IN
    /\ end_pc = "idle"
    /\ UNCHANGED <<appvars, status_body, sse_stop, scans, shift_stats, pin_attempts, pin_failures, now,
                   end_pc, end_ctx, restores>>
    /\ IF ~valid
       THEN /\ resp' = Response("start", 422, <<>>, "-")
            /\ UNCHANGED <<jobs, sse_queues>>
       ELSE IF Strip(vb.v) = <<>>
       THEN /\ resp' = Response("start", 400, <<>>, "-")
            /\ UNCHANGED <<jobs, sse_queues>>
       ELSE IF locked >= max_retries
       THEN /\ resp' = Response("start", 500, <<>>, "-")
            /\ UNCHANGED <<jobs, sse_queues>>
       ELSE IF fatal
       THEN /\ resp' = Response("start", 500, <<>>, "-")
            /\ UNCHANGED <<jobs, sse_queues>>
       ELSE IF active # 0
       THEN /\ resp' = Response("start", 400,
                                conflict_error(jobs[active], jid), "-")
            /\ UNCHANGED <<jobs, sse_queues>>
       ELSE /\ Len(jobs) < MaxJobs
            /\ jobs' = Append(jobs, job)
            /\ IF late = "error" \/ (late = "locked" /\ locked >= max_retries - 1)
               THEN \* lines 335-346: the except clauses roll back nothing,
                    \* the job is committed
                    /\ resp' = Response("start", 500, <<>>, "-")
                    /\ UNCHANGED sse_queues
               ELSE IF late = "locked"
               THEN \* lines 328-332: the next attempt finds the job that
                    \* this one committed
                    /\ resp' = Response("start", 400,
                                        conflict_error(job, jid), "-")
                    /\ UNCHANGED sse_queues
               ELSE /\ QueuesHaveRoom /\ PutReturns
                    /\ sse_queues' = notify_clients(sse_queues, "job_started",
                                                    Len(jobs) + 1)
                    /\ resp' = Response("start", 200, jid, "-")

----------------------------------------------------------------------------
(* POST /api/scan *)

\* a comparison that ignores the case of the letters
classify_ignoring_case(barcode, expected_barcode) ==
    LET Upper(s) == [i \in DOMAIN s |-> IF s[i] = "a" THEN "A" ELSE s[i]]
    IN IF Upper(barcode) = Upper(expected_barcode) THEN "PASS" ELSE "FAIL"

\* line 504
classify(barcode, expected_barcode) ==
    IF barcode = expected_barcode THEN "PASS" ELSE "FAIL"

\* counters that count every scan as a pass
update_counts_as_pass(job, status) ==
    [job EXCEPT !.cached_total_scans = @ + 1, !.cached_pass_count = @ + 1]

\* lines 517-521
update_cached_counts(job, status) ==
    [job EXCEPT
        !.cached_total_scans = @ + 1,
        !.cached_pass_count = IF status = "PASS" THEN @ + 1 ELSE @,
        !.cached_fail_count = IF status = "PASS" THEN @ ELSE @ + 1]

\* a row whose expected field is the scanned barcode
Scan_expecting_barcode(j, barcode, status) ==
    [job_id |-> j, barcode |-> barcode, expected |-> barcode,
     status |-> status, timestamp |-> now]

\* lines 510-516: the new row of job j, stamped with the clock
Scan(j, barcode, status) ==
    [job_id |-> j, barcode |-> barcode,
     expected |-> jobs[j].expected_barcode, status |-> status,
     timestamp |-> now]

process_scan(barcode_in, commit_ok, gpio_ok) ==
    LET barcode == Strip(barcode_in)
        j == FirstActive
        job == jobs[j]
        status == classify(barcode, job.expected_barcode)
        scan == Scan(j, barcode, status)
    IN
    /\ end_pc = "idle"
    /\ UNCHANGED <<appvars, status_body, sse_stop, shift_stats, pin_attempts, pin_failures, now, end_pc,
                   end_ctx, restores>>
    /\ IF barcode = <<>>
       THEN /\ resp' = Response("scan", 400, <<>>, "-")
            /\ UNCHANGED <<jobs, scans, sse_queues>>
       ELSE IF j = 0
       THEN /\ resp' = Response("scan", 400, <<>>, "-")
            /\ UNCHANGED <<jobs, scans, sse_queues>>
       ELSE IF ~commit_ok
       THEN /\ resp' = Response("scan", 500, <<>>, "-")
            /\ UNCHANGED <<jobs, scans, sse_queues>>
       ELSE /\ Len(scans) < MaxScans
            /\ scans' = Append(scans, scan)
            /\ jobs' = [jobs EXCEPT ![j] = update_cached_counts(@, status)]
            /\ IF ~gpio_ok
               THEN \* lines 527-531 and 546-549: trigger_pass or trigger_fail
                    \* raises after the commit; the handler's except clause
                    \* rolls back nothing and re-raises
                    /\ resp' = Response("scan", 500, <<>>, "-")
                    /\ UNCHANGED sse_queues
               ELSE /\ QueuesHaveRoom /\ PutReturns
                    /\ sse_queues' = notify_clients(sse_queues, "scan",
                                                    Len(scans) + 1)
                    /\ resp' = [Response("scan", 200, job.job_id, status)
                                   EXCEPT !.recent =
                                       recent_scans(scans', j, RecentLimit)]

----------------------------------------------------------------------------
(* PIN rate limiting *)

\* check_pin_rate_limit: the attempts of `ip` younger than the lockout period
\* (the list is replaced by them), and whether another attempt is allowed
\* a list that is never cleaned
all_attempts(ip) == pin_attempts[ip]

recent_attempts(ip) ==
    SelectSeq(pin_attempts[ip], LAMBDA t : t > now - PIN_LOCKOUT_MINUTES)

\* a limit that allows one attempt more
check_pin_rate_limit_above(ip) ==
    ~(Len(recent_attempts(ip)) > MAX_PIN_ATTEMPTS)

\* lines 110-113: FALSE when the limit is reached
check_pin_rate_limit(ip) == ~(Len(recent_attempts(ip)) >= MAX_PIN_ATTEMPTS)

\* an attempt recorded in one list shared by all addresses
record_pin_attempt_for_all(ip, success) ==
    [a \in DOMAIN pin_attempts |-> Append(pin_attempts[a], now)]

\* record_pin_attempt after check_pin_rate_limit: the attempt is appended
\* whatever `success` is
record_pin_attempt(ip, success) ==
    [pin_attempts EXCEPT ![ip] = Append(recent_attempts(ip), now)]

\* a comparison every PIN passes
pin_always_matches(pin) == TRUE

\* lines 369 and 402
pin_matches(pin) == pin = SUPERVISOR_PIN

\* history: an attempt answered 403 is remembered with its time
Answered(ip, success) ==
    IF success THEN pin_failures
    ELSE [pin_failures EXCEPT ![ip] = Append(@, now)]

(* POST /api/verify_pin *)

verify_pin(ip, pin) ==
    LET v == validate_pin(pin)
        success == pin_matches(v.v)
    IN
    /\ end_pc = "idle"
    /\ UNCHANGED <<appvars, status_body, sse_stop, jobs, scans, shift_stats, sse_queues, now, end_pc, end_ctx,
                   restores>>
    /\ IF ~v.ok
       THEN /\ resp' = Response("verify_pin", 422, <<>>, "-")
            /\ UNCHANGED <<pin_attempts, pin_failures>>
       ELSE IF ~check_pin_rate_limit(ip)
       THEN /\ resp' = PinResponse("verify_pin", 429, <<>>, success)
            /\ pin_attempts' = [pin_attempts EXCEPT ![ip] = recent_attempts(ip)]
            /\ UNCHANGED pin_failures
       ELSE /\ pin_attempts' = record_pin_attempt(ip, success)
            /\ pin_failures' = Answered(ip, success)
            /\ resp' = PinResponse("verify_pin", IF success THEN 200 ELSE 403,
                                   <<>>, success)

----------------------------------------------------------------------------
(* POST /api/job/end *)

\* totals in which a shipper is counted when its scan passed
accumulate_passed_shippers(shift, job) ==
    [total_shippers |-> shift.total_shippers + job.cached_pass_count,
     total_pieces |-> shift.total_pieces + total_pieces(job),
     total_pass |-> shift.total_pass + job.cached_pass_count,
     total_fail |-> shift.total_fail + job.cached_fail_count,
     jobs_completed |-> shift.jobs_completed + 1]

\* main.py:435-439, the job's totals added to a ShiftStats row
accumulate(shift, job) ==
    [total_shippers |-> shift.total_shippers + job.cached_total_scans,
     total_pieces |-> shift.total_pieces + total_pieces(job),
     total_pass |-> shift.total_pass + job.cached_pass_count,
     total_fail |-> shift.total_fail + job.cached_fail_count,
     jobs_completed |-> shift.jobs_completed + 1]

\* the newest job, active or not
select_latest_job == Len(jobs)

\* line 414: the job the end request ends, 0 for None
select_job_to_end == FirstActive

\* main.py:419-420, the job marked ended in the session
deactivate(job, t) == [job EXCEPT !.is_active = FALSE, !.end_time = t]

    \* Lines 389-425, and 426-469 when today's ShiftStats row is found: no
    \* other writer changes a row this request reads after that point.  When
    \* the row is not found the request goes on in end_job_flush.
end_job(ip, pin, commit_ok) ==
    LET v == validate_pin(pin)
        success == pin_matches(v.v)
        j == select_job_to_end
        day == today
    IN
    /\ end_pc = "idle"
    /\ UNCHANGED <<appvars, status_body, sse_stop, scans, now, restores>>
    /\ IF ~v.ok
       THEN /\ resp' = Response("end", 422, <<>>, "-")
            /\ UNCHANGED <<jobs, shift_stats, pin_attempts, pin_failures,
                           sse_queues, end_pc, end_ctx>>
       ELSE IF ~check_pin_rate_limit(ip)
       THEN /\ resp' = PinResponse("end", 429, <<>>, success)
            /\ pin_attempts' = [pin_attempts EXCEPT ![ip] = recent_attempts(ip)]
            /\ UNCHANGED <<jobs, shift_stats, pin_failures, sse_queues,
                           end_pc, end_ctx>>
       ELSE /\ pin_attempts' = record_pin_attempt(ip, success)
            /\ pin_failures' = Answered(ip, success)
            /\ IF ~success
               THEN /\ resp' = PinResponse("end", 403, <<>>, success)
                    /\ UNCHANGED <<jobs, shift_stats, sse_queues, end_pc,
                                   end_ctx>>
               ELSE IF j = 0
               THEN /\ resp' = PinResponse("end", 400, <<>>, success)
                    /\ UNCHANGED <<jobs, shift_stats, sse_queues, end_pc,
                                   end_ctx>>
               ELSE IF day \notin DOMAIN shift_stats
               THEN /\ end_pc' = "flush"
                    /\ end_ctx' = [job |-> j, day |-> day]
                    /\ UNCHANGED <<jobs, shift_stats, sse_queues, resp>>
               ELSE IF ~commit_ok
               THEN /\ resp' = PinResponse("end", 500, <<>>, success)
                    /\ UNCHANGED <<jobs, shift_stats, sse_queues, end_pc,
                                   end_ctx>>
               ELSE /\ QueuesHaveRoom /\ PutReturns
                    /\ jobs' = [jobs EXCEPT ![j] = deactivate(@, now)]
                    /\ shift_stats' = [shift_stats EXCEPT
                                          ![day] = accumulate(@, jobs[j])]
                    /\ sse_queues' = notify_clients(sse_queues, "job_ended", j)
                    /\ resp' = PinResponse("end", 200, jobs[j].job_id, success)
                    /\ UNCHANGED <<end_pc, end_ctx>>

    \* Lines 426-469 when today's ShiftStats row was not found at line 425.
    \* If another writer has committed the row since, the flush of line 430
    \* raises IntegrityError: line 432 rolls the session back, which discards
    \* the pending change of the job with the pending row, line 433 reads the
    \* other writer's row, and lines 435-442 add the totals to it and commit.
end_job_flush(commit_ok) ==
    LET j == end_ctx.job
        day == end_ctx.day
        conflict == day \in DOMAIN shift_stats
    IN
    /\ end_pc = "flush"
    /\ end_pc' = "idle"
    /\ end_ctx' = [job |-> 0, day |-> 0]
    /\ UNCHANGED <<appvars, status_body, sse_stop, scans, pin_attempts, pin_failures, now, restores>>
    /\ IF ~commit_ok
       THEN /\ resp' = PinResponse("end", 500, <<>>, TRUE)
            /\ UNCHANGED <<jobs, shift_stats, sse_queues>>
       ELSE /\ QueuesHaveRoom /\ PutReturns
            /\ IF conflict
               THEN /\ shift_stats' = [shift_stats EXCEPT
                                          ![day] = accumulate(@, jobs[j])]
                    /\ UNCHANGED jobs
               ELSE /\ shift_stats' =
                          (day :> accumulate(NewShiftStats, jobs[j]))
                              @@ shift_stats
                    /\ jobs' = [jobs EXCEPT ![j] = deactivate(@, now)]
            /\ sse_queues' = notify_clients(sse_queues, "job_ended", j)
            /\ resp' = PinResponse("end", 200, jobs[j].job_id, TRUE)

----------------------------------------------------------------------------
(* Another process on the same database file: the startup of a second      *)
(* instance of the application, main.py lifespan lines 143-155             *)

\* a startup that makes a new row of today whether or not one exists
lifespan_resetting_today ==
    /\ shift_stats' = [d \in DOMAIN shift_stats \cup {today} |->
                          IF d = today THEN NewShiftStats ELSE shift_stats[d]]
    /\ shift_stats' # shift_stats
    /\ UNCHANGED <<appvars, status_body, sse_stop, jobs, scans, pin_attempts, pin_failures, sse_queues, now,
                   resp, end_pc, end_ctx, restores>>

lifespan ==
    /\ today \notin DOMAIN shift_stats
    /\ shift_stats' = (today :> NewShiftStats) @@ shift_stats
    /\ UNCHANGED <<appvars, status_body, sse_stop, jobs, scans, pin_attempts, pin_failures, sse_queues, now,
                   resp, end_pc, end_ctx, restores>>

----------------------------------------------------------------------------
(* The clock *)

Tick(maxMinute) ==
    /\ end_pc = "idle"
    /\ (now % MinutesPerDay) + TickMinutes <= maxMinute
    /\ now' = now + TickMinutes
    /\ UNCHANGED <<appvars, status_body, sse_stop, jobs, scans, shift_stats, pin_attempts, pin_failures,
                   sse_queues, resp, end_pc, end_ctx, restores>>

Midnight ==
    /\ end_pc = "idle"
    /\ today < MaxDay
    /\ now' = (today + 1) * MinutesPerDay
    /\ UNCHANGED <<appvars, status_body, sse_stop, jobs, scans, shift_stats, pin_attempts, pin_failures,
                   sse_queues, resp, end_pc, end_ctx, restores>>

----------------------------------------------------------------------------
(* GET /api/backup and POST /api/restore *)

\* sorted(rows, key=lambda x: x.timestamp): stable, ascending
RECURSIVE InsertByTimestamp(_, _)
InsertByTimestamp(sorted, x) ==
    IF sorted = <<>> THEN <<x>>
    ELSE IF sorted[Len(sorted)].timestamp <= x.timestamp
    THEN Append(sorted, x)
    ELSE Append(InsertByTimestamp(SubSeq(sorted, 1, Len(sorted) - 1), x),
                sorted[Len(sorted)])

RECURSIVE SortedByTimestamp(_)
SortedByTimestamp(rows) ==
    IF rows = <<>> THEN <<>>
    ELSE InsertByTimestamp(
             SortedByTimestamp(SubSeq(rows, 1, Len(rows) - 1)),
             rows[Len(rows)])

\* Job.scans: the scans of job j in primary-key order
ScansOf(j) == SelectSeq(scans, LAMBDA s : s.job_id = j)

ScanDict(s) ==
    [barcode |-> s.barcode, status |-> s.status, timestamp |-> s.timestamp,
     expected |-> s.expected]

NoJobDict ==
    [job_id |-> <<>>, expected_barcode |-> <<>>, pieces_per_shipper |-> 0,
     target_quantity |-> 0, start_time |-> NoTime, pass_count |-> 0,
     fail_count |-> 0, total_scans |-> 0, total_pieces |-> 0,
     is_active |-> FALSE, end_time |-> NoTime, recent_scans |-> <<>>]

\* backup_data: the JSON document of the current state.  valid_json,
\* has_shift_date and job_complete are what a damaged copy of the file lacks.
backup_data ==
    LET j == FirstActive
        job == jobs[j]
        sorted == SortedByTimestamp(ScansOf(j))
    IN
    [valid_json |-> TRUE,
     has_shift_date |-> TRUE,
     job_complete |-> TRUE,
     shift_date |-> today,
     shift_stats |-> IF today \in DOMAIN shift_stats
                     THEN shift_stats[today]
                     ELSE NewShiftStats,
     has_job |-> j # 0,
     active_job |->
        IF j = 0 THEN NoJobDict
        ELSE [job_id |-> job.job_id,
              expected_barcode |-> job.expected_barcode,
              pieces_per_shipper |-> job.pieces_per_shipper,
              target_quantity |-> job.target_quantity,
              start_time |-> job.start_time,
              pass_count |-> job.cached_pass_count,
              fail_count |-> job.cached_fail_count,
              total_scans |-> job.cached_total_scans,
              total_pieces |-> total_pieces(job),
              is_active |-> job.is_active,
              end_time |-> job.end_time,
              recent_scans |->
                  [i \in DOMAIN sorted |-> ScanDict(sorted[i])]]]

    \* restore_data: json.loads fails before anything is deleted; the three
    \* deletes are committed at line 725, so an exception raised after it rolls
    \* back only the rows added since.
restore_data(file) ==
    LET d == file.active_job
        job == NewJob(d.job_id, d.expected_barcode, d.pieces_per_shipper,
                      d.target_quantity, d.start_time, d.is_active,
                      d.end_time)
        complete == file.has_shift_date /\ (file.has_job => file.job_complete)
    IN
    /\ end_pc = "idle"
    /\ UNCHANGED <<appvars, status_body, sse_stop, pin_attempts, pin_failures, now, end_pc, end_ctx>>
    /\ IF ~file.valid_json
       THEN /\ resp' = Response("restore", 500, <<>>, "-")
            /\ UNCHANGED <<jobs, scans, shift_stats, sse_queues, restores>>
       ELSE IF ~complete
       THEN /\ restores < MaxRestores
            /\ resp' = Response("restore", 500, <<>>, "-")
            /\ jobs' = <<>>
            /\ scans' = <<>>
            /\ shift_stats' = <<>>
            /\ restores' = restores + 1
            /\ UNCHANGED sse_queues
       ELSE /\ restores < MaxRestores
            /\ QueuesHaveRoom /\ PutReturns
            /\ shift_stats' = (file.shift_date :> file.shift_stats)
            /\ jobs' = IF file.has_job THEN <<job>> ELSE <<>>
            /\ scans' = IF file.has_job
                        THEN [i \in DOMAIN d.recent_scans |->
                                 [job_id |-> 1,
                                  barcode |-> d.recent_scans[i].barcode,
                                  expected |-> d.recent_scans[i].expected,
                                  status |-> d.recent_scans[i].status,
                                  timestamp |-> d.recent_scans[i].timestamp]]
                        ELSE <<>>
            /\ restores' = restores + 1
            /\ sse_queues' = notify_clients(sse_queues, "restore_complete", 1)
            /\ resp' = Response("restore", 200, <<>>, "-")

\* the files a restore request uploads: the backup of the current state, and
\* copies of it that are not JSON or lack a required key
RestoreFiles ==
    {backup_data,
     [backup_data EXCEPT !.valid_json = FALSE],
     [backup_data EXCEPT !.has_shift_date = FALSE],
     [backup_data EXCEPT !.job_complete = FALSE]}

----------------------------------------------------------------------------
(* GET /api/status *)

Hour(t) == (t % MinutesPerDay) \div 60

\* Job.scans_in_hour without a session: the PASS scans of the job stamped
\* in the given hour of today
scans_in_hour(j, target_hour) ==
    Cardinality({i \in DOMAIN scans :
                    /\ scans[i].job_id = j
                    /\ scans[i].status = "PASS"
                    /\ Date(scans[i].timestamp) = today
                    /\ Hour(scans[i].timestamp) = target_hour})

\* Job.scans_this_hour
scans_this_hour(j) == scans_in_hour(j, Hour(now))

\* Job.scans_prev_hour: 0 in the first hour of the day
scans_prev_hour(j) == IF Hour(now) - 1 < 0 THEN 0 ELSE scans_in_hour(j, Hour(now) - 1)

\* Job.pass_rate, as the fraction num / den
pass_rate(job) ==
    IF job.cached_total_scans = 0
    THEN [num |-> 0, den |-> 1]
    ELSE [num |-> job.cached_pass_count * 100, den |-> job.cached_total_scans]

\* round(x, 1) of the fraction x, in tenths: to the nearest, a tie to even
round1(x) ==
    LET q == (x.num * 10) \div x.den
        r == (x.num * 10) % x.den
    IN IF 2 * r > x.den \/ (2 * r = x.den /\ q % 2 = 1) THEN q + 1 ELSE q

\* Job.elapsed_time: up to end_time, or up to now for a job not ended
elapsed_time(job) ==
    (IF job.end_time = NoTime THEN now ELSE job.end_time) - job.start_time

\* JobRead.from_job
JobRead(j) ==
    LET job == jobs[j] IN
    [id |-> j,
     job_id |-> job.job_id,
     expected_barcode |-> job.expected_barcode,
     pieces_per_shipper |-> job.pieces_per_shipper,
     target_quantity |-> job.target_quantity,
     start_time |-> job.start_time,
     is_active |-> job.is_active,
     pass_count |-> job.cached_pass_count,
     fail_count |-> job.cached_fail_count,
     total_scans |-> job.cached_total_scans,
     total_pieces |-> total_pieces(job),
     pass_rate |-> round1(pass_rate(job)),
     elapsed |-> elapsed_time(job),
     scans_this_hour |-> scans_this_hour(j),
     pieces_this_hour |-> scans_this_hour(j) * job.pieces_per_shipper,
     scans_prev_hour |-> scans_prev_hour(j),
     pieces_prev_hour |-> scans_prev_hour(j) * job.pieces_per_shipper]

\* StatusResponse(active_job=..., shift=shift, server_time=...)
StatusResponse ==
    [has_job |-> FirstActive # 0,
     active_job |-> IF FirstActive # 0 THEN JobRead(FirstActive) ELSE NoJobRead,
     shift |-> shift_stats[today],
     server_time |-> now]

\* a status request that fetches today's row as ShiftStats.get_today of
\* app.py does, creating it when it is absent
get_status_get_today ==
    /\ end_pc = "idle"
    /\ UNCHANGED <<appvars, jobs, scans, pin_attempts, pin_failures, now,
                   sse_queues, sse_stop, end_pc, end_ctx, restores>>
    /\ shift_stats' = IF today \in DOMAIN shift_stats
                      THEN shift_stats
                      ELSE (today :> NewShiftStats) @@ shift_stats
    /\ resp' = Response("status", 200, <<>>, "-")
    /\ status_body' =
          [has_job |-> FirstActive # 0,
           active_job |-> IF FirstActive # 0 THEN JobRead(FirstActive)
                          ELSE NoJobRead,
           shift |-> shift_stats'[today],
           server_time |-> now]

\* get_status: nothing is written.  Without a ShiftStats row of today,
\* shift is None, which StatusResponse does not accept: the validation error
\* is answered 500.
get_status ==
    /\ end_pc = "idle"
    /\ UNCHANGED <<appvars, jobs, scans, shift_stats, pin_attempts, pin_failures, now,
                   sse_queues, sse_stop, end_pc, end_ctx, restores>>
    /\ IF today \in DOMAIN shift_stats
       THEN /\ resp' = Response("status", 200, <<>>, "-")
            /\ status_body' = StatusResponse
       ELSE /\ resp' = Response("status", 500, <<>>, "-")
            /\ UNCHANGED status_body

----------------------------------------------------------------------------
(* GET /api/events *)

Subscribers == {"display"}

Registered == {sse_queues[i].sub : i \in DOMAIN sse_queues}

QueueIndex(s) == CHOOSE i \in DOMAIN sse_queues : sse_queues[i].sub = s

\* event_generator, lines 776-777: a new queue is registered
sse_subscribe(s) ==
    /\ end_pc = "idle"
    /\ s \notin Registered
    /\ sse_queues' = Append(sse_queues, [sub |-> s, q |-> <<>>])
    /\ UNCHANGED <<appvars, status_body, sse_stop, jobs, scans, shift_stats, pin_attempts, pin_failures, now,
                   resp, end_pc, end_ctx, restores>>

\* a stream that takes the newest message of its queue
sse_deliver_newest(s) ==
    /\ end_pc = "idle"
    /\ s \in Registered
    /\ sse_queues[QueueIndex(s)].q # <<>>
    /\ sse_queues' = [sse_queues EXCEPT
                         ![QueueIndex(s)].q = SubSeq(@, 1, Len(@) - 1)]
    /\ UNCHANGED <<appvars, status_body, sse_stop, jobs, scans, shift_stats, pin_attempts, pin_failures, now,
                   resp, end_pc, end_ctx, restores>>

\* event_generator, lines 784-785: the oldest message is taken and sent
sse_deliver(s) ==
    /\ end_pc = "idle"
    /\ s \in Registered
    /\ sse_queues[QueueIndex(s)].q # <<>>
    /\ sse_queues' = [sse_queues EXCEPT ![QueueIndex(s)].q = Tail(@)]
    /\ UNCHANGED <<appvars, status_body, sse_stop, jobs, scans, shift_stats, pin_attempts, pin_failures, now,
                   resp, end_pc, end_ctx, restores>>

\* event_generator, lines 780-781 and 793-795: the client is gone
sse_disconnect(s) ==
    /\ end_pc = "idle"
    /\ s \in Registered
    /\ sse_queues' = SelectSeq(sse_queues, LAMBDA e : e.sub # s)
    /\ UNCHANGED <<appvars, status_body, sse_stop, jobs, scans, shift_stats, pin_attempts, pin_failures, now,
                   resp, end_pc, end_ctx, restores>>

Displays == {"display", "monitor"}

\* the client of subscriber s closes its connection, or its stream task is
\* cancelled: request.is_disconnected() is true from now on
client_disconnect(s) ==
    /\ end_pc = "idle"
    /\ s \in Registered
    /\ s \notin sse_stop.gone
    /\ sse_stop' = [sse_stop EXCEPT !.gone = @ \cup {s}]
    /\ UNCHANGED <<appvars, status_body, jobs, scans, shift_stats, pin_attempts, pin_failures, now,
                   resp, end_pc, end_ctx, restores, sse_queues>>

\* lifespan, line 162: shutdown_event.set()
shutdown ==
    /\ end_pc = "idle"
    /\ ~sse_stop.shutdown
    /\ sse_stop' = [sse_stop EXCEPT !.shutdown = TRUE]
    /\ UNCHANGED <<appvars, status_body, jobs, scans, shift_stats, pin_attempts, pin_failures, now,
                   resp, end_pc, end_ctx, restores, sse_queues>>

\* an event_generator that leaves the loop without its finally block
event_generator_without_finally(s) ==
    /\ end_pc = "idle"
    /\ s \in Registered
    /\ ~(sse_stop.shutdown \/ s \in sse_stop.gone)
    /\ sse_queues[QueueIndex(s)].q # <<>>
    /\ sse_queues' = [sse_queues EXCEPT ![QueueIndex(s)].q = Tail(@)]
    /\ UNCHANGED <<appvars, status_body, jobs, scans, shift_stats, pin_attempts, pin_failures, now,
                   resp, end_pc, end_ctx, restores, sse_stop>>

\* event_generator, lines 779-795, one turn of the loop: it ends and the
\* finally block removes the queue when shutdown_event is set, the client is
\* disconnected or the task is cancelled; otherwise the oldest message is
\* sent, or after the 1 s timeout a heartbeat, which changes nothing
event_generator(s) ==
    /\ end_pc = "idle"
    /\ s \in Registered
    /\ UNCHANGED <<appvars, status_body, jobs, scans, shift_stats, pin_attempts, pin_failures, now,
                   resp, end_pc, end_ctx, restores>>
    /\ IF sse_stop.shutdown \/ s \in sse_stop.gone
       THEN /\ sse_queues' = SelectSeq(sse_queues, LAMBDA e : e.sub # s)
            /\ sse_stop' = [sse_stop EXCEPT !.gone = @ \ {s}]
       ELSE /\ sse_queues' =
                  IF sse_queues[QueueIndex(s)].q # <<>>
                  THEN [sse_queues EXCEPT ![QueueIndex(s)].q = Tail(@)]
                  ELSE sse_queues
            /\ UNCHANGED sse_stop

----------------------------------------------------------------------------
(* Requests *)

StartInput(job_id, b, p, t, locked, fatal) ==
    [job_id |-> job_id, expected_barcode |-> b, pieces_per_shipper |-> p,
     target_quantity |-> t, locked |-> locked, fatal |-> fatal, late |-> "no"]

\* start requests that pass validation
GoodStarts(job_ids) ==
    {StartInput(job_id, <<" ", "A", " ">>, 2, 0, 0, FALSE) : job_id \in job_ids}

\* the same with the database locked for some attempts, or failing
FailedStarts ==
    {StartInput(<<>>, <<"A">>, 2, 0, locked, FALSE) :
        locked \in 1..max_retries}
    \cup {StartInput(<<>>, <<"A">>, 2, 0, 0, TRUE)}

\* the same with an exception raised after the commit
LateStarts ==
    {[r EXCEPT !.late = l, !.locked = k] :
        r \in GoodStarts({<<>>}), l \in {"locked", "error"},
        k \in 0..(max_retries - 1)}

\* start requests that fail validation
BadStarts ==
    {StartInput(<<"J", "/">>, <<"A">>, 2, 0, 0, FALSE),
     StartInput(<<>>, <<" ">>, 2, 0, 0, FALSE),
     StartInput(<<>>, <<"<">>, 2, 0, 0, FALSE),
     StartInput(<<>>, <<"A">>, 0, 0, 0, FALSE),
     StartInput(<<>>, <<"A">>, 2, 0 - 1, 0, FALSE)}

\* a barcode of n characters
LongBarcode(n) == [i \in 1..n |-> "A"]

\* start requests at and beyond the limits of each field
LimitStarts ==
    {StartInput(<<>>, b, 2, 0, 0, FALSE) :
        b \in {<<>>, <<" ", "\t">>,
               LongBarcode(MaxBarcodeLen + 1),
               <<" ">> \o LongBarcode(MaxBarcodeLen) \o <<" ">>}
              \cup {<<"A", c>> : c \in BarcodeDangerous}}
    \cup {StartInput(<<>>, <<"A">>, p, 0, 0, FALSE) :
             p \in {0 - 1, 0, 1, MaxPieces, MaxPieces + 1}}
    \cup {StartInput(<<>>, <<"A">>, 2, t, 0, FALSE) :
             t \in {0 - 1, 0, MaxTarget, MaxTarget + 1}}

StartRequest(inputs) ==
    \E r \in inputs :
        start_job(r.job_id, r.expected_barcode, r.pieces_per_shipper,
                  r.target_quantity, r.locked, r.fatal, r.late)

ScanBarcodes == {<<>>, <<" ">>, <<"A">>, <<"a">>, <<"A", " ">>}

\* a scan whose indicator call raises: GPIO is in use and RPi.GPIO's output,
\* or the start of the timer thread, fails
ScanIndicatorFails(barcodes) == \E b \in barcodes : process_scan(b, TRUE, FALSE)

ScanRequest(barcodes, oks) ==
    \E b \in barcodes, ok \in oks : process_scan(b, ok, TRUE)

CorrectPins == {<<"1", "2", "3", "4">>, <<" ", "1", "2", "3", "4">>}

WrongPins == {<<"0", "0", "0", "0">>}

InvalidPins == {<<"1", "2">>}

EndRequest(ips, pins, oks) ==
    \E ip \in ips, pin \in pins, ok \in oks : end_job(ip, pin, ok)

EndFlush(oks) == \E ok \in oks : end_job_flush(ok)

VerifyPinRequest(ips, pins) == \E ip \in ips, pin \in pins : verify_pin(ip, pin)

RestoreRequest == \E f \in RestoreFiles : restore_data(f)

SubscribeRequest == \E c \in Subscribers : sse_subscribe(c)

Deliver == \E c \in Subscribers : sse_deliver(c)

Disconnect == \E c \in Subscribers : sse_disconnect(c)

Station == {"10.0.0.1"}

EventStarts ==
    GoodStarts({<<>>, <<"J", "1">>}) \cup FailedStarts \cup BadStarts

----------------------------------------------------------------------------
(* Spec: jobs started, scanned and ended by the supervisor, with the       *)
(* failures of the database and of the indicator outputs                   *)

Next ==
    \/ StartRequest(GoodStarts({<<>>}) \cup FailedStarts)
    \/ ScanRequest(ScanBarcodes, BOOLEAN)
    \/ ScanIndicatorFails(ScanBarcodes)
    \/ EndRequest(Station, {SUPERVISOR_PIN}, BOOLEAN)

Spec == Init /\ [][Next]_vars

(* SpecDays: the same over calendar days, with a second instance of the    *)
(* application starting on the same database at any moment                 *)

NextDays ==
    \/ StartRequest(GoodStarts({<<>>}))
    \/ ScanRequest(ScanBarcodes, BOOLEAN)
    \/ EndRequest(Station, {SUPERVISOR_PIN}, BOOLEAN)
    \/ EndFlush(BOOLEAN)
    \/ lifespan
    \/ Midnight

SpecDays == Init /\ [][NextDays]_vars

(* SpecRestore: the job lifecycle with backup files restored *)

NextRestore ==
    \/ StartRequest(GoodStarts({<<>>}))
    \/ ScanRequest({<<"A">>, <<"a">>}, {TRUE})
    \/ EndRequest(Station, {SUPERVISOR_PIN}, {TRUE})
    \/ EndFlush({TRUE})
    \/ lifespan
    \/ RestoreRequest

SpecRestore == Init /\ [][NextRestore]_vars

(* SpecStarts: start requests of every kind, good and bad, with a          *)
(* live-update subscriber                                                  *)

NextStarts ==
    \/ StartRequest(EventStarts)
    \/ EndRequest(Station, {SUPERVISOR_PIN}, {TRUE})
    \/ SubscribeRequest
    \/ Deliver
    \/ Disconnect

SpecStarts == Init /\ [][NextStarts]_vars

(* SpecEvents: scan and end requests of every kind, good and bad, with a   *)
(* live-update subscriber                                                  *)

NextEvents ==
    \/ StartRequest(GoodStarts({<<>>}))
    \/ ScanRequest(ScanBarcodes, BOOLEAN)
    \/ EndRequest(Station, {SUPERVISOR_PIN} \cup InvalidPins, BOOLEAN)
    \/ SubscribeRequest
    \/ Deliver
    \/ Disconnect

SpecEvents == Init /\ [][NextEvents]_vars

(* SpecPin: PIN attempts of one client address over time, from the state  *)
(* in which a first job has been started                                   *)

InitPin ==
    /\ jobs = <<NewJob(<<"JOB_", "0">>, <<"A">>, 1, 0, 0, TRUE, NoTime)>>
    /\ scans = <<>>
    /\ shift_stats = (0 :> NewShiftStats)
    /\ pin_attempts = [ip \in Clients |-> <<>>]
    /\ sse_queues = <<>>
    /\ now = 0
    /\ resp = Response("start", 200, <<"JOB_", "0">>, "-")
    /\ pin_failures = [ip \in Clients |-> <<>>]
    /\ end_pc = "idle"
    /\ end_ctx = [job |-> 0, day |-> 0]
    /\ restores = 0
    /\ sse_stop = [gone |-> {}, shutdown |-> FALSE]
    /\ status_body = NoStatus
    /\ threads = [t \in AppThreads |-> IdleThread]
    /\ sse_subscribers = <<>>
    /\ message_queues = [c \in Streams |-> NoStream]

NextPin ==
    \/ VerifyPinRequest(Station, CorrectPins \cup WrongPins \cup InvalidPins)
    \/ EndRequest(Station, CorrectPins \cup WrongPins \cup InvalidPins, {TRUE})
    \/ Tick(PinMaxMinute)

SpecPin == InitPin /\ [][NextPin]_vars

(* SpecLockout: the same over a longer time, past the lockout period *)

LockoutPins == {SUPERVISOR_PIN} \cup WrongPins

NextLockout ==
    \/ VerifyPinRequest(Station, LockoutPins)
    \/ EndRequest(Station, LockoutPins, {TRUE})
    \/ Tick(LockoutMaxMinute)

SpecLockout == InitPin /\ [][NextLockout]_vars

(* SpecBroadcast: requests that succeed and requests that fail, restore    *)
(* included, with a live-update subscriber                                 *)

BroadcastScans == {<<" ">>, <<"A">>}

\* the backup of the current state, and a copy of it that is not JSON
BroadcastFiles == {backup_data, [backup_data EXCEPT !.valid_json = FALSE]}

NextBroadcast ==
    \/ StartRequest(GoodStarts({<<>>}))
    \/ ScanRequest(BroadcastScans, {TRUE})
    \/ EndRequest(Station, {SUPERVISOR_PIN}, {TRUE})
    \/ \E f \in BroadcastFiles : restore_data(f)
    \/ SubscribeRequest
    \/ Deliver
    \/ Disconnect

SpecBroadcast == Init /\ [][NextBroadcast]_vars

(* SpecStream: two live-update streams whose clients disconnect, and the   *)
(* shutdown of the application.  The event loop runs every stream task     *)
(* that is ready, and a turn of its loop lasts at most the 1 s timeout.    *)

NextStream ==
    \/ StartRequest(GoodStarts({<<>>}))
    \/ ScanRequest({<<"A">>}, {TRUE})
    \/ \E c \in Displays : sse_subscribe(c)
    \/ \E c \in Displays : client_disconnect(c)
    \/ shutdown
    \/ \E c \in Displays : event_generator(c)

SpecStream ==
    /\ Init
    /\ [][NextStream]_vars
    /\ \A c \in Displays : WF_vars(event_generator(c))

(* SpecPublish: jobs started, scanned and ended while two live-update     *)
(* streams subscribe, read at their own pace, and lose their clients.      *)

NextPublish ==
    \/ StartRequest(GoodStarts({<<>>}))
    \/ ScanRequest({<<"A">>}, {TRUE})
    \/ EndRequest(Station, {SUPERVISOR_PIN}, {TRUE})
    \/ \E c \in Displays : sse_subscribe(c)
    \/ \E c \in Displays : client_disconnect(c)
    \/ \E c \in Displays : event_generator(c)

SpecPublish == Init /\ [][NextPublish]_vars

(* SpecStatus: the status read between starts and scans, while the clock   *)
(* advances and the date changes                                           *)

StatusRequest == get_status

NextStatus ==
    \/ StartRequest(GoodStarts({<<>>}))
    \/ ScanRequest({<<"A">>, <<"a">>}, {TRUE})
    \/ StatusRequest
    \/ Tick(StatusMaxMinute)
    \/ Midnight

SpecStatus == Init /\ [][NextStatus]_vars

(* SpecLimits: start requests at and beyond the limits of their fields,    *)
(* and scans, with a live-update subscriber                                *)

NextLimits ==
    \/ StartRequest(LimitStarts)
    \/ ScanRequest({<<"A">>, <<"a">>}, {TRUE})
    \/ SubscribeRequest
    \/ Deliver
    \/ Disconnect

SpecLimits == Init /\ [][NextLimits]_vars

(* SpecRetry: start requests with the failures of the database at every    *)
(* place of the handler, with a live-update subscriber                     *)

RetryStarts == GoodStarts({<<>>}) \cup FailedStarts \cup LateStarts

NextRetry ==
    \/ StartRequest(RetryStarts)
    \/ EndRequest(Station, {SUPERVISOR_PIN}, {TRUE})
    \/ SubscribeRequest
    \/ Deliver
    \/ Disconnect

SpecRetry == Init /\ [][NextRetry]_vars

(* SpecLine: jobs started and scanned, with PIN verifications by the       *)
(* supervisor                                                              *)

NextLine ==
    \/ StartRequest(GoodStarts({<<>>}))
    \/ ScanRequest({<<"A">>, <<"a">>}, {TRUE})
    \/ VerifyPinRequest(Station, LockoutPins)

SpecLine == Init /\ [][NextLine]_vars

(* SpecSupervise: jobs started and ended by a supervisor who mistypes the  *)
(* PIN, before and after midnight                                          *)

SupervisePins == CorrectPins \cup WrongPins \cup InvalidPins

NextSupervise ==
    \/ StartRequest(GoodStarts({<<>>}))
    \/ EndRequest(Station, SupervisePins, BOOLEAN)
    \/ EndFlush(BOOLEAN)
    \/ Midnight

SpecSupervise == Init /\ [][NextSupervise]_vars

(* SpecControl: start requests whose barcode holds control characters,     *)
(* with scans and a live-update subscriber                                 *)

ControlBarcodes ==
    {<<"A", c, "B">> : c \in {"\t", "\n", "\r", "BEL", "NUL"}}
    \cup {<<"\t", "A", "B", "\n">>, <<"A", "B">>, <<"BEL">>}

ControlStarts == {StartInput(<<>>, b, 2, 0, 0, FALSE) : b \in ControlBarcodes}

NextControl ==
    \/ StartRequest(ControlStarts)
    \/ ScanRequest({<<"A", "\t", "B">>, <<"A", "B">>}, {TRUE})
    \/ SubscribeRequest
    \/ Deliver
    \/ Disconnect

SpecControl == Init /\ [][NextControl]_vars

----------------------------------------------------------------------------
(* The Flask variant, app.py, served by one thread per request             *)
(* (app.run(threaded=True), lines 654-660).  The threads share the         *)
(* database and the module's list sse_subscribers; the interpreter runs    *)
(* one bytecode at a time, so a list operation is one step and a thread    *)
(* can be preempted between any two of them.                               *)

appmain == <<scans, pin_attempts, sse_queues, now, pin_failures, end_pc, end_ctx, restores, sse_stop, status_body>>

\* MessageQueue.put, lines 349-351
put(q, message) == [q EXCEPT !.messages = Append(@, message), !.event = TRUE]

\* the queues in the registry
AppRegistered == {sse_subscribers[k] : k \in DOMAIN sse_subscribers}

\* list.remove(x): the first occurrence is taken out
remove(list, x) == SelectSeq(list, LAMBDA y : y # x)

\* start_job lines 402-412: the query for an active job, and validation
app_start_job_check(t, expected_barcode) ==
    /\ threads[t].pc = "idle"
    /\ Len(jobs) < MaxJobs
    /\ IF FirstActive # 0
       THEN /\ resp' = Response("start", 400, <<>>, "-")
            /\ UNCHANGED threads
       ELSE IF Strip(expected_barcode) = <<>>
       THEN /\ resp' = Response("start", 400, <<>>, "-")
            /\ UNCHANGED threads
       ELSE /\ threads' = [threads EXCEPT ![t].pc = "insert",
                                          ![t].expected = Strip(expected_barcode)]
            /\ UNCHANGED resp
    /\ UNCHANGED <<jobs, shift_stats, sse_subscribers, message_queues, appmain>>

\* start_job lines 434-446: the Job is added and committed, and
\* notify_clients begins its loop over sse_subscribers
app_start_job_commit(t) ==
    /\ threads[t].pc = "insert"
    /\ Len(jobs) < MaxJobs
    /\ jobs' = Append(jobs, NewJob(<<"JOB_", "0">>, threads[t].expected, 1, 0,
                                   now, TRUE, NoTime))
    /\ threads' = [threads EXCEPT
                      ![t] = [pc |-> "notify", expected |-> <<>>, i |-> 1,
                              message |-> [event |-> "job_started",
                                           data |-> Len(jobs) + 1],
                              registered |-> AppRegistered]]
    /\ UNCHANGED <<resp, shift_stats, sse_subscribers, message_queues, appmain>>

\* end_job lines 455-476: PIN, query, the job ended and the totals of the
\* day (ShiftStats.get_today() makes the row when there is none), commit,
\* and notify_clients begins its loop
app_end_job(t, pin) ==
    LET j == FirstActive
        shift == IF today \in DOMAIN shift_stats THEN shift_stats[today]
                 ELSE NewShiftStats
    IN
    /\ threads[t].pc = "idle"
    /\ IF pin # SUPERVISOR_PIN
       THEN /\ resp' = PinResponse("end", 403, <<>>, FALSE)
            /\ UNCHANGED <<jobs, shift_stats, threads>>
       ELSE IF j = 0
       THEN /\ resp' = PinResponse("end", 400, <<>>, TRUE)
            /\ UNCHANGED <<jobs, shift_stats, threads>>
       ELSE /\ jobs' = [jobs EXCEPT ![j] = deactivate(@, now)]
            /\ shift_stats' = (today :> accumulate(shift, jobs[j])) @@ shift_stats
            /\ threads' = [threads EXCEPT
                              ![t] = [pc |-> "notify", expected |-> <<>>, i |-> 1,
                                      message |-> [event |-> "job_ended",
                                                   data |-> j],
                                      registered |-> AppRegistered]]
            /\ UNCHANGED resp
    /\ UNCHANGED <<sse_subscribers, message_queues, appmain>>

\* notify_clients lines 333-339: one turn of `for subscriber in
\* sse_subscribers`.  The list iterator keeps an index into the list as it
\* is now; put raises nothing, so dead_subscribers stays empty.  When the
\* index is past the end the loop is over and the handler answers.
notify_clients_step(t) ==
    LET th == threads[t] IN
    /\ th.pc = "notify"
    /\ IF th.i <= Len(sse_subscribers)
       THEN /\ message_queues' =
                  [message_queues EXCEPT
                      ![sse_subscribers[th.i]] = put(@, th.message)]
            /\ threads' = [threads EXCEPT ![t].i = @ + 1]
            /\ UNCHANGED resp
       ELSE /\ threads' = [threads EXCEPT ![t] = IdleThread]
            /\ resp' = Response(IF th.message.event = "job_started"
                                THEN "start" ELSE "end", 200, <<>>, "-")
            /\ UNCHANGED message_queues
    /\ UNCHANGED <<jobs, shift_stats, sse_subscribers, appmain>>

\* sse_stream.generate lines 600-604: the queue is made and registered, and
\* the first get is called
generate(c) ==
    /\ message_queues[c].pc = "none"
    /\ message_queues' = [message_queues EXCEPT ![c].pc = "wait"]
    /\ sse_subscribers' = Append(sse_subscribers, c)
    /\ UNCHANGED <<jobs, shift_stats, resp, threads, appmain>>

\* MessageQueue.get line 354, self.event.wait(timeout): returns when the
\* event is set, or when the 30 s of the timeout have passed
get_wait(c, timed_out) ==
    /\ message_queues[c].pc = "wait"
    /\ message_queues[c].event \/ timed_out
    /\ message_queues' = [message_queues EXCEPT ![c].pc = "clear"]
    /\ UNCHANGED <<jobs, shift_stats, resp, threads, sse_subscribers, appmain>>

\* line 355, self.event.clear()
get_clear(c) ==
    /\ message_queues[c].pc = "clear"
    /\ message_queues' = [message_queues EXCEPT ![c].pc = "pop",
                                                ![c].event = FALSE]
    /\ UNCHANGED <<jobs, shift_stats, resp, threads, sse_subscribers, appmain>>

\* lines 356-358 and 606-610: the oldest message is popped and yielded, or
\* None is returned and a heartbeat yielded
get_pop(c) ==
    LET q == message_queues[c] IN
    /\ q.pc = "pop"
    /\ message_queues' =
          [message_queues EXCEPT
              ![c] = IF q.messages # <<>>
                     THEN [q EXCEPT !.pc = "yield",
                                    !.messages = Tail(@),
                                    !.received = Append(@, Head(q.messages))]
                     ELSE [q EXCEPT !.pc = "yield"]]
    /\ UNCHANGED <<jobs, shift_stats, resp, threads, sse_subscribers, appmain>>

\* the generator is resumed after its yield: the next get is called
get_again(c) ==
    /\ message_queues[c].pc = "yield"
    /\ message_queues' = [message_queues EXCEPT ![c].pc = "wait"]
    /\ UNCHANGED <<jobs, shift_stats, resp, threads, sse_subscribers, appmain>>

\* lines 611-612: the client is gone, the server closes the generator at
\* its yield, and GeneratorExit takes the queue out of the registry
generator_exit(c) ==
    /\ message_queues[c].pc = "yield"
    /\ message_queues' = [message_queues EXCEPT ![c].pc = "closed"]
    /\ sse_subscribers' = remove(sse_subscribers, c)
    /\ UNCHANGED <<jobs, shift_stats, resp, threads, appmain>>

\* the requests of the threads ts and the steps of the streams cs
AppRequests(ts) ==
    \/ \E t \in ts : app_start_job_check(t, <<"A">>)
    \/ \E t \in ts : app_start_job_commit(t)
    \/ \E t \in ts : app_end_job(t, SUPERVISOR_PIN)
    \/ \E t \in ts : notify_clients_step(t)

AppStreams(cs) ==
    \/ \E c \in cs : generate(c)
    \/ \E c \in cs, timed_out \in BOOLEAN : get_wait(c, timed_out)
    \/ \E c \in cs : get_clear(c)
    \/ \E c \in cs : get_pop(c)
    \/ \E c \in cs : get_again(c)
    \/ \E c \in cs : generator_exit(c)

(* SpecApp: the Flask variant with two request threads and one stream *)

NextApp ==
    \/ AppRequests(AppThreads)
    \/ AppStreams({"s1"})

SpecApp == Init /\ [][NextApp]_vars

(* SpecAppRegistry: the Flask variant with one request thread and two      *)
(* streams                                                                 *)

NextAppRegistry ==
    \/ AppRequests({"t1"})
    \/ AppStreams(Streams)

SpecAppRegistry == Init /\ [][NextAppRegistry]_vars

(* SpecClients: PIN attempts of two client addresses, from the state in    *)
(* which a first job has been started                                      *)

NextClients ==
    \/ VerifyPinRequest(Clients, LockoutPins)
    \/ EndRequest(Clients, LockoutPins, {TRUE})

SpecClients == InitPin /\ [][NextClients]_vars

(* SpecShift: jobs started, scanned and ended before and after midnight *)

NextShift ==
    \/ StartRequest(GoodStarts({<<>>}))
    \/ ScanRequest({<<"A">>, <<"a">>}, {TRUE})
    \/ EndRequest(Station, {SUPERVISOR_PIN}, {TRUE})
    \/ EndFlush({TRUE})
    \/ Midnight

SpecShift == Init /\ [][NextShift]_vars

(* SpecOrder: jobs started, scanned and ended while two subscribers come,  *)
(* read their queues and go                                                *)

NextOrder ==
    \/ StartRequest(GoodStarts({<<>>}))
    \/ ScanRequest({<<"A">>, <<"a">>}, {TRUE})
    \/ EndRequest(Station, {SUPERVISOR_PIN}, {TRUE})
    \/ \E c \in Displays : sse_subscribe(c)
    \/ \E c \in Displays : sse_deliver(c)
    \/ \E c \in Displays : sse_disconnect(c)

SpecOrder == Init /\ [][NextOrder]_vars

----------------------------------------------------------------------------
(* Claims *)

CountScans(j, statuses) ==
    Cardinality({i \in DOMAIN scans :
                    scans[i].job_id = j /\ scans[i].status \in statuses})

\* C1: in every reachable state, under any order of start, scan, end and
\* restore requests, at most one Job row has is_active = true.
C1_AtMostOneActiveJob ==
    Cardinality({i \in DOMAIN jobs : jobs[i].is_active}) <= 1

\* a start was refused while one of two jobs is active, after a restore
C1_Witness ==
    /\ restores > 0
    /\ Len(jobs) = 2
    /\ Cardinality({i \in DOMAIN jobs : jobs[i].is_active}) = 1
    /\ resp.op = "start"
    /\ resp.status = 400

\* C2: after any sequence of start, scan and end requests, every job's
\* cached_pass_count and cached_fail_count are the numbers of its PASS and
\* FAIL scans, and they add up to cached_total_scans, the number of its
\* scans.
C2_CountersMatchScans ==
    \A j \in DOMAIN jobs :
        /\ jobs[j].cached_pass_count = CountScans(j, {"PASS"})
        /\ jobs[j].cached_fail_count = CountScans(j, {"FAIL"})
        /\ jobs[j].cached_pass_count + jobs[j].cached_fail_count
               = jobs[j].cached_total_scans
        /\ jobs[j].cached_total_scans
               = Cardinality({i \in DOMAIN scans : scans[i].job_id = j})

\* an ended job with a PASS and a FAIL scan, and a second job
C2_Witness ==
    /\ Len(jobs) = 2
    /\ ~jobs[1].is_active
    /\ jobs[1].cached_pass_count = 1
    /\ jobs[1].cached_fail_count = 1
    /\ Len(scans) = 2

\* a start request that passes validation and finds the database healthy
StartAccepted(r) ==
    /\ validate_job_id(r.job_id).ok
    /\ validate_barcode(r.expected_barcode).ok
    /\ validate_pieces(r.pieces_per_shipper)
    /\ validate_target(r.target_quantity)
    /\ r.locked < max_retries
    /\ ~r.fatal

\* C3: a start request made while a job is active creates no Job row, leaves
\* the active job unchanged and the only active one, and publishes no event;
\* when the request is valid and the database answers, it is refused with
\* status 400 and the error names the job_id of the active job.
C3_StartRefusedWhileActive ==
    [][\A r \in EventStarts :
          (/\ FirstActive # 0
           /\ start_job(r.job_id, r.expected_barcode, r.pieces_per_shipper,
                        r.target_quantity, r.locked, r.fatal, r.late))
          => /\ jobs' = jobs
             /\ {i \in DOMAIN jobs' : jobs'[i].is_active} = {FirstActive}
             /\ sse_queues' = sse_queues
             /\ StartAccepted(r) =>
                   /\ resp'.status = 400
                   /\ resp'.job_id = jobs[FirstActive].job_id
      ]_vars

\* job J1 is active, a start was refused naming it, and the subscriber's queue
\* holds no event
C3_Witness ==
    /\ Len(jobs) = 1
    /\ jobs[1].is_active
    /\ jobs[1].job_id = <<"J", "1">>
    /\ resp = Response("start", 400, <<"J", "1">>, "-")
    /\ Len(sse_queues) = 1
    /\ sse_queues[1].q = <<>>

\* C4: an accepted scan is recorded PASS exactly when the trimmed barcode
\* equals the active job's expected_barcode, character for character, and
\* FAIL otherwise; a PASS adds 1 to the pass and total counters only, a FAIL
\* adds 1 to the fail and total counters only.
C4_ScanClassified ==
    [][\A b \in ScanBarcodes, ok \in BOOLEAN :
          (process_scan(b, ok, TRUE) /\ resp'.status = 200)
          => LET j == FirstActive
                 pass == Strip(b) = jobs[j].expected_barcode
                 row == scans'[Len(scans')]
             IN /\ Len(scans') = Len(scans) + 1
                /\ row.job_id = j
                /\ row.barcode = Strip(b)
                /\ row.status = (IF pass THEN "PASS" ELSE "FAIL")
                /\ resp'.scan = row.status
                /\ jobs'[j].cached_total_scans = jobs[j].cached_total_scans + 1
                /\ jobs'[j].cached_pass_count =
                       jobs[j].cached_pass_count + (IF pass THEN 1 ELSE 0)
                /\ jobs'[j].cached_fail_count =
                       jobs[j].cached_fail_count + (IF pass THEN 0 ELSE 1)
                /\ \A k \in DOMAIN jobs \ {j} : jobs'[k] = jobs[k]
      ]_vars

\* a scan equal to the expected barcode was recorded PASS, and then one that
\* differs from it only by case was recorded FAIL
C4_Witness ==
    /\ resp.op = "scan"
    /\ resp.status = 200
    /\ resp.scan = "FAIL"
    /\ Len(scans) = 2
    /\ scans[1].status = "PASS"
    /\ scans[1].barcode = scans[1].expected
    /\ scans[2].status = "FAIL"
    /\ scans[2].barcode = <<"a">>
    /\ scans[2].expected = <<"A">>
    /\ jobs[scans[2].job_id].cached_pass_count = 1
    /\ jobs[scans[2].job_id].cached_fail_count = 1

\* an end request is answered in this step
EndAnswered ==
    /\ \E ok \in BOOLEAN :
          \/ end_job("10.0.0.1", SUPERVISOR_PIN, ok)
          \/ end_job_flush(ok)
    /\ end_pc' = "idle"

\* the ShiftStats row of day d, a row of zeros when there is none
ShiftRow(stats, d) == IF d \in DOMAIN stats THEN stats[d] ELSE NewShiftStats

RECURSIVE SumCompleted(_, _)
SumCompleted(stats, days) ==
    IF days = {} THEN 0
    ELSE LET d == CHOOSE x \in days : TRUE
         IN stats[d].jobs_completed + SumCompleted(stats, days \ {d})

\* the jobs_completed of all ShiftStats rows together
Completed(stats) == SumCompleted(stats, DOMAIN stats)

Limited(ip) ==
    Cardinality({i \in DOMAIN pin_attempts[ip] :
                    pin_attempts[ip][i] > now - PIN_LOCKOUT_MINUTES})
        >= MAX_PIN_ATTEMPTS

\* C7: an end request with an incorrect PIN leaves every Job and ShiftStats
\* row as it is (the active job stays active, its end_time null) and
\* publishes nothing; it is answered 403, or 429 when the address has
\* reached the attempt limit.
C7_WrongPinLeavesJob ==
    [][\A ip \in Station, pin \in WrongPins :
          end_job(ip, pin, TRUE)
          => /\ jobs' = jobs
             /\ scans' = scans
             /\ shift_stats' = shift_stats
             /\ sse_queues' = sse_queues
             /\ resp'.status = (IF Limited(ip) THEN 429 ELSE 403)
      ]_vars

\* a wrong PIN was answered 403 and the job is active with no end_time,
\* ShiftStats still zero
C7_Witness ==
    /\ resp = PinResponse("end", 403, <<>>, FALSE)
    /\ jobs[1].is_active
    /\ jobs[1].end_time = NoTime
    /\ shift_stats[0] = NewShiftStats

\* C8: an end request with the correct PIN when no job is active leaves all
\* Jobs, Scans and ShiftStats unchanged and publishes no event; it is
\* answered 400 (429 when the address has reached the attempt limit).
C8_EndWithoutActiveJob ==
    [][\A ip \in Station, ok \in BOOLEAN :
          (FirstActive = 0 /\ end_job(ip, SUPERVISOR_PIN, ok))
          => /\ jobs' = jobs
             /\ scans' = scans
             /\ shift_stats' = shift_stats
             /\ sse_queues' = sse_queues
             /\ resp'.status = (IF Limited(ip) THEN 429 ELSE 400)
      ]_vars

\* a job was ended, a second end with the correct PIN was answered 400, and
\* the subscriber's queue holds no event
C8_Witness ==
    /\ resp = PinResponse("end", 400, <<>>, TRUE)
    /\ Len(jobs) = 1
    /\ ~jobs[1].is_active
    /\ shift_stats[0].jobs_completed = 1
    /\ Len(sse_queues) = 1
    /\ sse_queues[1].q = <<>>

AllWhitespace(b) == \A i \in DOMAIN b : b[i] \in Whitespace

\* C9: a scan request whose barcode is empty after trimming, or made when no
\* job is active, is answered 400; no Scan row is inserted, no Job changes
\* and no event is published.
C9_RejectedScanPersistsNothing ==
    [][\A b \in ScanBarcodes, ok \in BOOLEAN :
          (process_scan(b, ok, TRUE) /\ (AllWhitespace(b) \/ FirstActive = 0))
          => /\ resp'.status = 400
             /\ scans' = scans
             /\ jobs' = jobs
             /\ shift_stats' = shift_stats
             /\ sse_queues' = sse_queues
      ]_vars

\* a scan was answered 400 while a job is active: no Scan row, counters at
\* zero, nothing in the subscriber's queue
C9_Witness ==
    /\ resp = Response("scan", 400, <<>>, "-")
    /\ FirstActive # 0
    /\ scans = <<>>
    /\ jobs[FirstActive].cached_total_scans = 0
    /\ Len(sse_queues) = 1
    /\ sse_queues[1].q = <<>>

\* the attempts of ip answered 403 less than the lockout period ago
FailuresInWindow(ip) ==
    Cardinality({i \in DOMAIN pin_failures[ip] :
                    pin_failures[ip][i] > now - PIN_LOCKOUT_MINUTES})

\* C10: while 5 attempts of an address answered 403 are younger than 15
\* minutes, every verify_pin and end_job request of that address, with the
\* correct PIN or not, is answered 429, and the end_job ends no job.
C10_LockedOutAfterFiveFailures ==
    [][\A ip \in Station, pin \in CorrectPins \cup WrongPins :
          (/\ FailuresInWindow(ip) >= MAX_PIN_ATTEMPTS
           /\ (verify_pin(ip, pin) \/ end_job(ip, pin, TRUE)))
          => /\ resp'.status = 429
             /\ jobs' = jobs
             /\ shift_stats' = shift_stats
             /\ sse_queues' = sse_queues
      ]_vars

\* after five wrong PINs an end request with the correct PIN was answered
\* 429 and the job is still active
C10_Witness ==
    /\ resp = PinResponse("end", 429, <<>>, TRUE)
    /\ FailuresInWindow("10.0.0.1") >= MAX_PIN_ATTEMPTS
    /\ jobs[1].is_active
    /\ jobs[1].end_time = NoTime

\* C11: only failed PIN attempts count toward the rate limit.  A verify_pin
\* or end_job request is answered 429 only when 5 attempts of its address
\* answered 403 are younger than 15 minutes; an address that only sends the
\* correct PIN is never answered 429.
C11_OnlyFailuresCount ==
    [][\A ip \in Station, pin \in CorrectPins \cup WrongPins :
          (/\ verify_pin(ip, pin) \/ end_job(ip, pin, TRUE)
           /\ resp'.status = 429)
          => FailuresInWindow(ip) >= MAX_PIN_ATTEMPTS
      ]_vars

\* a request with the correct PIN was answered 429 and the address has never
\* sent a wrong PIN
C11_Witness ==
    /\ resp.status = 429
    /\ resp.pin = "correct"
    /\ pin_failures["10.0.0.1"] = <<>>
    /\ Len(pin_attempts["10.0.0.1"]) = MAX_PIN_ATTEMPTS

\* the oldest attempt main.py:82 holds for ip
OldestAttempt(ip) == SetMin({pin_attempts[ip][i] : i \in DOMAIN pin_attempts[ip]})

\* C12: a lockout ends.  When an address holds 5 counted attempts and the
\* oldest of them is more than 15 minutes old, its next verify_pin or
\* end_job request is not answered 429: the PIN is evaluated, a wrong one is
\* answered 403 and a correct one is accepted.
C12_LockoutEnds ==
    [][\A ip \in Station, pin \in LockoutPins :
          (/\ Len(pin_attempts[ip]) >= MAX_PIN_ATTEMPTS
           /\ OldestAttempt(ip) < now - PIN_LOCKOUT_MINUTES
           /\ verify_pin(ip, pin) \/ end_job(ip, pin, TRUE))
          => /\ resp'.status # 429
             /\ pin = SUPERVISOR_PIN => resp'.status \in {200, 400}
             /\ pin # SUPERVISOR_PIN => resp'.status = 403
      ]_vars

\* the address was locked out, and more than 15 minutes after its oldest
\* attempt a wrong PIN is answered 403 again
C12_Witness ==
    /\ resp.status = 403
    /\ Len(pin_failures["10.0.0.1"]) > MAX_PIN_ATTEMPTS
    /\ \E i \in DOMAIN pin_failures["10.0.0.1"] :
          pin_failures["10.0.0.1"][i] < now - PIN_LOCKOUT_MINUTES

\* the Job row carries the line-lock flag and it is set
IsLocked(job) == "is_locked" \in DOMAIN job /\ job["is_locked"]

\* the Job row carries the line-lock flag and it is clear
IsUnlocked(job) == "is_locked" \in DOMAIN job /\ ~job["is_locked"]

\* C13: a scan recorded FAIL sets is_locked on the active job, and a scan
\* request made while the active job is locked is answered 423, inserts no
\* Scan and changes no counter.
C13_FailLocksLine ==
    [][\A b \in ScanBarcodes, ok \in BOOLEAN :
          process_scan(b, ok, TRUE)
          => /\ (resp'.status = 200 /\ resp'.scan = "FAIL")
                   => IsLocked(jobs'[FirstActive])
             /\ (FirstActive # 0 /\ Strip(b) # <<>>
                     /\ IsLocked(jobs[FirstActive]))
                   => /\ resp'.status = 423
                      /\ scans' = scans
                      /\ jobs' = jobs
      ]_vars

\* a scan was recorded FAIL and the next scan of the same job, equal to the
\* expected barcode, was accepted and recorded PASS
C13_Witness ==
    /\ Len(scans) = 2
    /\ scans[1].status = "FAIL"
    /\ scans[2].status = "PASS"
    /\ scans[2].job_id = scans[1].job_id
    /\ resp.op = "scan" /\ resp.status = 200 /\ resp.scan = "PASS"
    /\ resp.job_id = jobs[scans[2].job_id].job_id

\* C14: a locked job is unlocked only by a verify_pin request with the
\* correct PIN.  After such a request the active job's is_locked is false,
\* and no other step clears a set is_locked.
C14_OnlyPinUnlocks ==
    [][/\ \A ip \in Station :
             (/\ verify_pin(ip, SUPERVISOR_PIN)
              /\ resp'.status = 200
              /\ FirstActive # 0)
             => IsUnlocked(jobs'[FirstActive])
       /\ \A j \in DOMAIN jobs :
             (IsLocked(jobs[j]) /\ j \in DOMAIN jobs' /\ ~IsLocked(jobs'[j]))
             => \E ip \in Station :
                   verify_pin(ip, SUPERVISOR_PIN) /\ resp'.status = 200
      ]_vars

\* after a FAIL scan the correct PIN was verified, and the Job row has no
\* is_locked to read
C14_Witness ==
    /\ resp = PinResponse("verify_pin", 200, <<>>, TRUE)
    /\ FirstActive # 0
    /\ jobs[FirstActive].cached_fail_count > 0
    /\ "is_locked" \notin DOMAIN jobs[FirstActive]

\* when ok, every queue registered before the step has got exactly one more
\* message, of the given type, at its end; otherwise no queue has changed
Published(ok, type) ==
    IF ok
    THEN /\ Len(sse_queues') = Len(sse_queues)
         /\ \A i \in DOMAIN sse_queues :
               /\ sse_queues'[i].sub = sse_queues[i].sub
               /\ Len(sse_queues'[i].q) = Len(sse_queues[i].q) + 1
               /\ SubSeq(sse_queues'[i].q, 1, Len(sse_queues[i].q))
                      = sse_queues[i].q
               /\ sse_queues'[i].q[Len(sse_queues'[i].q)].event = type
    ELSE sse_queues' = sse_queues

Stopped(s) == sse_stop.shutdown \/ s \in sse_stop.gone

\* C16: a subscriber whose client has disconnected, whose task is cancelled,
\* or that is registered when shutdown is signalled, is eventually removed
\* from the registry.
C16_DeadSubscriberRemoved ==
    \A s \in Displays : (s \in Registered /\ Stopped(s)) ~> (s \notin Registered)

\* the client of display is gone while its queue is registered with an event
\* in it, next to a live subscriber
C16_Witness ==
    /\ "display" \in Registered
    /\ "display" \in sse_stop.gone
    /\ sse_queues[QueueIndex("display")].q # <<>>
    /\ "monitor" \in Registered
    /\ ~Stopped("monitor")

\* a subscriber that keeps the publisher's messages unread: its client is
\* gone, or it has not yet taken what was put before
Stalled(s) ==
    /\ s \in Registered
    /\ s \in sse_stop.gone \/ sse_queues[QueueIndex(s)].q # <<>>

\* every registered queue has got one more message, of the given type
Received(type) ==
    /\ Len(sse_queues') = Len(sse_queues)
    /\ \A i \in DOMAIN sse_queues :
          /\ sse_queues'[i].sub = sse_queues[i].sub
          /\ Len(sse_queues'[i].q) = Len(sse_queues[i].q) + 1
          /\ sse_queues'[i].q[Len(sse_queues'[i].q)].event = type

\* C17: publishing never blocks: no put of notify_clients ever has to wait,
\* and a start, scan or end request that succeeds while a subscriber is
\* slow, stalled or dead has put the event on the queue of every subscriber.
C17_PublishNeverBlocks ==
    /\ []PutReturns
    /\ [][(\E s \in Displays : Stalled(s)) =>
            /\ StartRequest(GoodStarts({<<>>})) /\ resp'.status = 200
                  => Received("job_started")
            /\ process_scan(<<"A">>, TRUE, TRUE) /\ resp'.status = 200
                  => Received("scan")
            /\ \A ip \in Station :
                  end_job(ip, SUPERVISOR_PIN, TRUE) /\ resp'.status = 200
                  => Received("job_ended")]_vars

\* a scan was answered 200 while display, whose client is gone, keeps two
\* events unread, and monitor has the event on its queue too
C17_Witness ==
    /\ resp.op = "scan" /\ resp.status = 200
    /\ "display" \in sse_stop.gone
    /\ "display" \in Registered
    /\ Len(sse_queues[QueueIndex("display")].q) >= 2
    /\ "monitor" \in Registered
    /\ "monitor" \notin sse_stop.gone
    /\ sse_queues[QueueIndex("monitor")].q # <<>>
    /\ sse_queues[QueueIndex("monitor")].q[Len(sse_queues[QueueIndex("monitor")].q)].event = "scan"

\* C18: when the indicator call fails after the scan's commit, the request
\* still answers the successful result, and the committed Scan and counters
\* are kept.
C18_SideEffectsBestEffort ==
    [][\A b \in ScanBarcodes :
          (process_scan(b, TRUE, FALSE) /\ ~AllWhitespace(b) /\ FirstActive # 0)
          => /\ resp'.status = 200
             /\ resp'.scan = scans'[Len(scans')].status
             /\ Len(scans') = Len(scans) + 1
             /\ jobs'[FirstActive].cached_total_scans
                   = jobs[FirstActive].cached_total_scans + 1]_vars

\* a stored FAIL scan, counted by its job, whose request was answered 500
C18_Witness ==
    /\ resp = Response("scan", 500, <<>>, "-")
    /\ scans # <<>>
    /\ scans[Len(scans)].status = "FAIL"
    /\ FirstActive # 0
    /\ jobs[FirstActive].cached_fail_count = CountScans(FirstActive, {"FAIL"})

\* the part of C18 the program keeps: the Scan and the counters committed
\* before the indicator call stay
ScanKeptWhenIndicatorFails ==
    [][\A b \in ScanBarcodes :
          (process_scan(b, TRUE, FALSE) /\ ~AllWhitespace(b) /\ FirstActive # 0)
          => /\ Len(scans') = Len(scans) + 1
             /\ jobs'[FirstActive].cached_total_scans
                   = jobs[FirstActive].cached_total_scans + 1]_vars

\* a file that is not JSON, or that is JSON without a required key
Malformed(file) ==
    \/ ~file.valid_json
    \/ ~file.has_shift_date
    \/ file.has_job /\ ~file.job_complete

\* C19: a restore of a malformed file is answered 500 and leaves the Jobs,
\* Scans and ShiftStats of the store exactly as they were before the request.
C19_FailedRestoreRolledBack ==
    [][\A f \in RestoreFiles :
          (restore_data(f) /\ Malformed(f))
          => /\ resp'.status = 500
             /\ UNCHANGED <<jobs, scans, shift_stats>>]_vars

\* a restore was answered 500 and the store holds no job, no scan and no
\* shift statistics
C19_Witness ==
    /\ resp = Response("restore", 500, <<>>, "-")
    /\ jobs = <<>>
    /\ scans = <<>>
    /\ DOMAIN shift_stats = {}

\* the statuses of a list of scans, in its order
Statuses(rows) == [i \in DOMAIN rows |-> rows[i].status]

\* C20: a restore of the backup of the current state reproduces it: the
\* active job has the same expected_barcode, pieces_per_shipper, pass_count,
\* fail_count and total_scans, its scans are as many with the same statuses
\* in the same order, and today's ShiftStats has the same totals.
C20_BackupRestoreRoundTrip ==
    [][(restore_data(backup_data) /\ FirstActive # 0)
         => /\ resp'.status = 200
            /\ Len(jobs') = 1
            /\ jobs'[1].is_active
            /\ jobs'[1].expected_barcode = jobs[FirstActive].expected_barcode
            /\ jobs'[1].pieces_per_shipper = jobs[FirstActive].pieces_per_shipper
            /\ jobs'[1].cached_pass_count = jobs[FirstActive].cached_pass_count
            /\ jobs'[1].cached_fail_count = jobs[FirstActive].cached_fail_count
            /\ jobs'[1].cached_total_scans = jobs[FirstActive].cached_total_scans
            /\ Statuses(scans') = Statuses(ScansOf(FirstActive))
            /\ today \in DOMAIN shift_stats'
            /\ today \in DOMAIN shift_stats
                  => shift_stats'[today] = shift_stats[today]]_vars

\* a restore was answered 200 and the restored active job has its scans,
\* one PASS and one FAIL, while its counters say it has none
C20_Witness ==
    /\ resp = Response("restore", 200, <<>>, "-")
    /\ FirstActive # 0
    /\ CountScans(FirstActive, {"PASS"}) = 1
    /\ CountScans(FirstActive, {"FAIL"}) = 1
    /\ jobs[FirstActive].cached_total_scans = 0

\* the part of C20 the program keeps: the job's barcode and pieces, the
\* scans' statuses in order, and today's totals
RestoreKeepsScansAndTotals ==
    [][(restore_data(backup_data) /\ FirstActive # 0)
         => /\ resp'.status = 200
            /\ Len(jobs') = 1
            /\ jobs'[1].is_active
            /\ jobs'[1].expected_barcode = jobs[FirstActive].expected_barcode
            /\ jobs'[1].pieces_per_shipper = jobs[FirstActive].pieces_per_shipper
            /\ Statuses(scans') = Statuses(ScansOf(FirstActive))
            /\ today \in DOMAIN shift_stats'
            /\ today \in DOMAIN shift_stats
                  => shift_stats'[today] = shift_stats[today]]_vars

\* a status body without the fields read off the clock
Timeless(body) ==
    [body EXCEPT !.server_time = NoTime,
                 !.active_job.elapsed = 0,
                 !.active_job.scans_this_hour = 0,
                 !.active_job.pieces_this_hour = 0,
                 !.active_job.scans_prev_hour = 0,
                 !.active_job.pieces_prev_hour = 0]

\* the request before this one was a status request that was answered
AfterStatus == resp.op = "status" /\ resp.status = 200

C22_StatusAlwaysAnswers ==
    [][get_status =>
          /\ resp'.status = 200
          /\ today \in DOMAIN shift_stats'
          /\ status_body'.shift = shift_stats'[today]
          /\ status_body'.server_time = now]_vars

\* a status request was answered 500 on a day without ShiftStats row
C22_Witness ==
    /\ resp = Response("status", 500, <<>>, "-")
    /\ today \notin DOMAIN shift_stats
    /\ today = 1

\* the start requests C23 wants rejected
Rejectable(r) ==
    \/ Strip(r.expected_barcode) = <<>>
    \/ Len(Strip(r.expected_barcode)) > 200
    \/ Chars(Strip(r.expected_barcode)) \cap BarcodeDangerous # {}
    \/ r.pieces_per_shipper < 1 \/ r.pieces_per_shipper > 10000
    \/ r.target_quantity < 0 \/ r.target_quantity > 1000000

\* C23: a start request whose expected_barcode is empty after trimming,
\* longer than 200 characters or holds a denylisted character, or whose
\* pieces_per_shipper is outside 1..10000, or whose target_quantity is
\* outside 0..1000000, is rejected: no Job is created, no Job becomes
\* active and no event is published.
C23_InvalidStartRejected ==
    [][\A r \in LimitStarts :
          (/\ Rejectable(r)
           /\ start_job(r.job_id, r.expected_barcode, r.pieces_per_shipper,
                        r.target_quantity, r.locked, r.fatal, r.late))
          => /\ resp'.status = 422
             /\ UNCHANGED <<jobs, scans, shift_stats, sse_queues>>]_vars

\* a start was answered 422 while no job exists and a subscriber is
\* registered with nothing on its queue
C23_Witness ==
    /\ resp = Response("start", 422, <<>>, "-")
    /\ jobs = <<>>
    /\ sse_queues # <<>>
    /\ sse_queues[1].q = <<>>

\* the limits themselves are accepted: a job of 10000 pieces per shipper is
\* started
LimitsAccepted ==
    /\ resp.op = "start" /\ resp.status = 200
    /\ FirstActive # 0
    /\ jobs[FirstActive].pieces_per_shipper = 10000

\* the start request meets a failure that is not retried away
StartFails(r) ==
    \/ r.locked >= max_retries
    \/ r.fatal
    \/ r.late = "error"
    \/ r.late = "locked" /\ r.locked >= max_retries - 1

\* C24: start_job makes at most 3 attempts; when the third attempt fails
\* too, or an error that is not transient occurs, the request is answered
\* 500, no Job is created, no Job newly active and no job_started event is
\* published.
C24_StartGivesUpCleanly ==
    [][\A r \in RetryStarts :
          (/\ FirstActive = 0
           /\ start_job(r.job_id, r.expected_barcode, r.pieces_per_shipper,
                        r.target_quantity, r.locked, r.fatal, r.late))
          => /\ retry_loop(0, r.locked) <= 3
             /\ StartFails(r) =>
                   /\ resp'.status = 500
                   /\ jobs' = jobs
                   /\ sse_queues' = sse_queues]_vars

\* a start was answered 500 and a job is active that a status of 200 never
\* announced: the subscriber's queue is empty
C24_Witness ==
    /\ resp = Response("start", 500, <<>>, "-")
    /\ Len(jobs) = 1
    /\ jobs[1].is_active
    /\ sse_queues # <<>>
    /\ sse_queues[1].q = <<>>

\* the part of C24 the program keeps: at most 3 attempts, and a failure
\* raised before or by the commit is answered 500 with nothing created
StartFailsBeforeCommit ==
    [][\A r \in RetryStarts :
          (/\ FirstActive = 0
           /\ start_job(r.job_id, r.expected_barcode, r.pieces_per_shipper,
                        r.target_quantity, r.locked, r.fatal, r.late))
          => /\ retry_loop(0, r.locked) <= 3
             /\ (r.locked >= max_retries \/ r.fatal) =>
                   /\ resp'.status = 500
                   /\ jobs' = jobs
                   /\ sse_queues' = sse_queues]_vars

\* C25: the recent_scans of a scan result are at most 8 scans, all of the
\* active job, newest first in the order they were persisted: the first is
\* the scan just processed, whatever the timestamps are.
C25_RecentScansNewestFirst ==
    [][\A b \in ScanBarcodes :
          (process_scan(b, TRUE, TRUE) /\ resp'.status = 200)
          => /\ Len(resp'.recent) <= 8
             /\ \A k \in DOMAIN resp'.recent :
                   scans'[resp'.recent[k]].job_id = FirstActive
             /\ \A k \in DOMAIN resp'.recent :
                   k > 1 => resp'.recent[k] < resp'.recent[k - 1]
             /\ resp'.recent[1] = Len(scans')]_vars

\* the result of the second scan of a job, stamped as the first, lists the
\* first scan before it
C25_Witness ==
    /\ resp.op = "scan" /\ resp.status = 200
    /\ resp.recent = <<1, 2>>
    /\ Len(scans) = 2
    /\ scans[1].timestamp = scans[2].timestamp

\* the part of C25 the program keeps: at most 8 scans, all of the active
\* job, each of them once, never an older timestamp before a newer one
RecentScansByTimestamp ==
    [][\A b \in ScanBarcodes :
          (process_scan(b, TRUE, TRUE) /\ resp'.status = 200)
          => /\ Len(resp'.recent) <= 8
             /\ \A k \in DOMAIN resp'.recent :
                   scans'[resp'.recent[k]].job_id = FirstActive
             /\ \A k, l \in DOMAIN resp'.recent :
                   k < l => /\ resp'.recent[k] # resp'.recent[l]
                            /\ scans'[resp'.recent[k]].timestamp
                                  >= scans'[resp'.recent[l]].timestamp]_vars

\* a ShiftStats row is removed or its totals are changed
ShiftRowChanged ==
    \E d \in DOMAIN shift_stats :
        d \notin DOMAIN shift_stats' \/ shift_stats'[d] # shift_stats[d]

\* a ShiftStats row is added
ShiftRowAdded == \E d \in DOMAIN shift_stats' : d \notin DOMAIN shift_stats

AuthorisedEnd(ip) ==
    /\ ~Limited(ip)
    /\ \E pin \in CorrectPins, ok \in BOOLEAN : end_job(ip, pin, ok)

\* C27: a Job's is_active changes from true to false only inside an end
\* request that passed the rate-limit check and supplied the correct PIN
\* (in its first part, or in its second part after the flush, which only
\* such a request reaches); an ended Job never becomes active again; and no
\* start, end or clock step deletes or replaces a Job.
C27_EndedOnlyByAuthorisedEnd ==
    [][/\ Len(jobs') >= Len(jobs)
       /\ \A i \in DOMAIN jobs :
             /\ jobs'[i].job_id = jobs[i].job_id
             /\ jobs'[i].start_time = jobs[i].start_time
             /\ ~jobs[i].is_active => ~jobs'[i].is_active
             /\ (jobs[i].is_active /\ ~jobs'[i].is_active)
                  => \/ \E ip \in Station : AuthorisedEnd(ip)
                     \/ EndFlush(BOOLEAN)
       /\ (end_pc = "idle" /\ end_pc' = "flush")
            => \E ip \in Station : AuthorisedEnd(ip)
      ]_vars

\* the job was ended by the fifth attempt after four wrong PINs, a second
\* job has been started, and a limited attempt with the correct PIN has
\* left it active
C27_Witness ==
    /\ Len(jobs) = 2
    /\ ~jobs[1].is_active
    /\ jobs[2].is_active
    /\ Len(pin_failures["10.0.0.1"]) = 4
    /\ resp.op = "end" /\ resp.status = 429

\* C28: a Scan row, once inserted, keeps its job_id, barcode, expected,
\* status and timestamp through every start, scan and end request (no row
\* is removed either), and the row a scan request inserts has the
\* expected_barcode of the job that owns it as its expected field.
C28_ScansImmutable ==
    [][/\ Len(scans') >= Len(scans)
       /\ \A i \in DOMAIN scans : scans'[i] = scans[i]
       /\ \A i \in DOMAIN scans' \ DOMAIN scans :
             /\ scans'[i].job_id = FirstActive
             /\ scans'[i].expected = jobs[FirstActive].expected_barcode
             /\ scans'[i].timestamp = now
      ]_vars

\* a FAIL scan recorded for the first job is still there, as it was, after
\* the job has been ended and a second job started
C28_Witness ==
    /\ Len(jobs) = 2
    /\ ~jobs[1].is_active
    /\ jobs[2].is_active
    /\ Len(scans) >= 1
    /\ scans[1] = [job_id |-> 1, barcode |-> <<"a">>, expected |-> <<"A">>,
                   status |-> "FAIL", timestamp |-> jobs[1].start_time]
    /\ resp.op = "start" /\ resp.status = 200

\* the control characters of barcode b that trimming does not remove
EmbeddedControls(b) == {c \in Chars(Strip(b)) : Ord(c) < 32}

\* C29 as stated: a start request whose expected_barcode holds any control
\* character (code point below 32), an embedded tab, line feed or carriage
\* return included, is rejected and creates no Job.
C29_ControlCharsRejected ==
    [][\A r \in ControlStarts :
          (/\ EmbeddedControls(r.expected_barcode) # {}
           /\ start_job(r.job_id, r.expected_barcode, r.pieces_per_shipper,
                        r.target_quantity, r.locked, r.fatal, r.late))
          => /\ resp'.status = 422
             /\ jobs' = jobs]_vars

\* C29 as the code has it: a start request whose expected_barcode, once
\* trimmed, holds a control character other than tab, line feed and
\* carriage return is rejected and creates no Job; one whose only control
\* characters are embedded tabs, line feeds or carriage returns passes
\* validation, and when no job is active it creates a Job whose
\* expected_barcode holds them.
C29_ControlCharsExceptWhitespaceRejected ==
    [][\A r \in ControlStarts :
          (/\ EmbeddedControls(r.expected_barcode) # {}
           /\ start_job(r.job_id, r.expected_barcode, r.pieces_per_shipper,
                        r.target_quantity, r.locked, r.fatal, r.late))
          => IF EmbeddedControls(r.expected_barcode) \subseteq {"\t", "\n", "\r"}
             THEN /\ resp'.status # 422
                  /\ FirstActive = 0
                       => /\ resp'.status = 200
                          /\ Len(jobs') = Len(jobs) + 1
                          /\ jobs'[Len(jobs')].expected_barcode
                                = Strip(r.expected_barcode)
             ELSE /\ resp'.status = 422
                  /\ jobs' = jobs]_vars

\* a job whose expected barcode holds an embedded control character is
\* active, and a scan of the same barcode has passed
C29_Witness ==
    /\ FirstActive # 0
    /\ EmbeddedControls(jobs[FirstActive].expected_barcode) # {}
    /\ resp.op = "scan" /\ resp.status = 200 /\ resp.scan = "PASS"

\* a barcode with a bell character has been refused while no job exists
ControlCharRefused ==
    /\ resp = Response("start", 422, <<>>, "-")
    /\ jobs = <<>>

\* snapshot s has the derived fields its counters give: total_pieces, and
\* pass_rate in tenths of a percent, the nearest to pass_count /
\* total_scans * 100
DerivedFollowCounters(s) ==
    /\ s.total_pieces = s.pass_count * s.pieces_per_shipper
    /\ s.total_scans = 0 => s.pass_rate = 0
    /\ s.total_scans > 0 =>
          /\ 2 * (s.pass_rate * s.total_scans - s.pass_count * 1000)
                <= s.total_scans
          /\ 2 * (s.pass_count * 1000 - s.pass_rate * s.total_scans)
                <= s.total_scans

\* C30: the derived fields follow the counters.  For every job,
\* total_pieces = pass_count * pieces_per_shipper; pass_rate is 0 when
\* total_scans = 0 and pass_count / total_scans * 100 otherwise; and the
\* snapshot of the job, like the one the last status answer carried, has
\* that total_pieces and that pass_rate to one decimal.
C30_DerivedFieldsFollowCounters ==
    /\ \A j \in DOMAIN jobs :
          /\ total_pieces(jobs[j])
               = jobs[j].cached_pass_count * jobs[j].pieces_per_shipper
          /\ jobs[j].cached_total_scans = 0
               => pass_rate(jobs[j]).num = 0
          /\ jobs[j].cached_total_scans > 0
               => pass_rate(jobs[j]).num * jobs[j].cached_total_scans
                    = jobs[j].cached_pass_count * 100 * pass_rate(jobs[j]).den
          /\ DerivedFollowCounters(JobRead(j))
    /\ status_body.has_job => DerivedFollowCounters(status_body.active_job)

\* a status answer carried the snapshot of a job with one PASS and one FAIL:
\* 2 pieces for 2 pieces per shipper, and a pass rate of 50.0
C30_Witness ==
    /\ resp.op = "status" /\ resp.status = 200
    /\ status_body.has_job
    /\ status_body.active_job.total_scans = 2
    /\ status_body.active_job.pass_count = 1
    /\ status_body.active_job.total_pieces = 2
    /\ status_body.active_job.pass_rate = 500

\* a status answer carried the snapshot of a job without scans: rate 0
NoScansRateZero ==
    /\ resp.op = "status" /\ resp.status = 200
    /\ status_body.has_job
    /\ status_body.active_job.total_scans = 0
    /\ status_body.active_job.pass_rate = 0

\* C31: in the threaded Flask variant, two start requests running in
\* parallel threads never both create an active Job: at most one Job is
\* active in every reachable state.
C31_AppStartAtomic ==
    \A i, j \in DOMAIN jobs :
        (jobs[i].is_active /\ jobs[j].is_active) => i = j

\* both threads have found no active job and are about to insert theirs
C31_Witness ==
    /\ jobs = <<>>
    /\ \A t \in AppThreads : threads[t].pc = "insert"

\* the messages stream c has been given and has not lost
Held(c) ==
    {message_queues[c].messages[k] : k \in DOMAIN message_queues[c].messages}
    \cup {message_queues[c].received[k] : k \in DOMAIN message_queues[c].received}

\* C32: in the threaded Flask variant, when notify_clients has finished its
\* loop, every subscriber that was registered when the loop began and is
\* still registered has been given the message, whatever other threads
\* subscribed or unsubscribed meanwhile.
C32_RegistrySafeUnderConcurrency ==
    [][\A t \in AppThreads :
          (threads[t].pc = "notify" /\ threads'[t].pc = "idle")
          => \A c \in threads[t].registered \cap AppRegistered :
                threads[t].message \in Held(c)]_vars

\* a publish has begun with two subscribers registered, has given the
\* message to the first, and the first has unsubscribed since
C32_Witness ==
    /\ threads["t1"].pc = "notify"
    /\ threads["t1"].i = 2
    /\ threads["t1"].registered = Streams
    /\ Len(sse_subscribers) = 1
    /\ threads["t1"].message \notin Held(sse_subscribers[1])

\* C33: in the Flask variant's MessageQueue, a get() called while a message
\* is pending does not wait: whenever a stream is in event.wait and its
\* queue holds a message, the event is set.
C33_GetNeverWaitsWhilePending ==
    \A c \in Streams :
        (message_queues[c].pc = "wait" /\ message_queues[c].messages # <<>>)
        => message_queues[c].event

\* a stream has yielded the first of two messages put before its get, and
\* its next get waits with the second pending
C33_Witness ==
    /\ message_queues["s1"].pc = "wait"
    /\ ~message_queues["s1"].event
    /\ Len(message_queues["s1"].messages) = 1
    /\ Len(message_queues["s1"].received) = 1

\* C34: end_job checks the rate limit, then the PIN, then the active job.
\* A limited client is answered 429 whatever its PIN and whether or not a
\* job is active; below the limit a wrong PIN is answered 403, also when no
\* job is active; 400 is answered only to the correct PIN below the limit
\* when no job is active; and a request answered 429 or 403 changes no Job
\* and no ShiftStats row.
C34_EndChecksInOrder ==
    [][\A ip \in Station, pin \in CorrectPins \cup WrongPins :
          end_job(ip, pin, TRUE)
          => /\ Limited(ip) => resp'.status = 429
             /\ (~Limited(ip) /\ pin \in WrongPins) => resp'.status = 403
             /\ resp'.status = 400
                  <=> (~Limited(ip) /\ pin \in CorrectPins /\ FirstActive = 0)
             /\ resp'.status \in {429, 403}
                  => UNCHANGED <<jobs, scans, shift_stats>>]_vars

\* a wrong PIN was answered 403 while no job was active
C34_Witness ==
    /\ resp = PinResponse("end", 403, <<>>, FALSE)
    /\ FirstActive = 0
    /\ ~jobs[1].is_active

\* a limited client was answered 429 while no job was active
LimitedWithoutJob ==
    /\ resp.op = "end" /\ resp.status = 429
    /\ FirstActive = 0

\* the recorded attempts of address ip younger than the lockout period
Young(ip) ==
    SelectSeq(pin_attempts[ip], LAMBDA t : t > now - PIN_LOCKOUT_MINUTES)

\* C35: for every client address the number of recorded PIN attempts
\* younger than 15 minutes never exceeds 5 (MAX_PIN_ATTEMPTS), after any
\* sequence of verify_pin and end_job requests; a request answered 429
\* records nothing, so the attempts made during a lockout do not extend it.
C35_AtMostFiveYoungAttempts ==
    [][/\ \A ip \in Clients : Len(Young(ip)') <= MAX_PIN_ATTEMPTS
       /\ \A ip \in Station, pin \in LockoutPins :
             (/\ Limited(ip)
              /\ verify_pin(ip, pin) \/ end_job(ip, pin, TRUE))
             => /\ resp'.status = 429
                /\ Young(ip)' = Young(ip)
                /\ pin_failures' = pin_failures]_vars

\* five attempts were made at minute 0 and a sixth, ten minutes later, was
\* answered 429 and not recorded
C35_Witness ==
    /\ resp.status = 429
    /\ now = 10
    /\ pin_attempts["10.0.0.1"] = <<0, 0, 0, 0, 0>>

\* the lockout has ended fifteen minutes after the five attempts although
\* more were made meanwhile: an attempt is answered again
LockoutNotExtended ==
    /\ now = 15
    /\ pin_attempts["10.0.0.1"] = <<15>>
    /\ resp.status \in {200, 403}

\* a PIN attempt of address a, by either request
Attempt(a, pin) == verify_pin(a, pin) \/ end_job(a, pin, TRUE)

\* what the attempts of address a alone make of its next attempt with
\* `pin`: 429 at the limit, else 403 for a wrong PIN, else the PIN passes
\* (verify_pin answers 200; end_job goes on to the job)
OwnOutcome(a, pin) ==
    IF Len(Young(a)) >= MAX_PIN_ATTEMPTS THEN {429}
    ELSE IF pin # SUPERVISOR_PIN THEN {403}
    ELSE {200, 400}

\* C36: PIN rate limiting is isolated per client address.  A request of
\* another address leaves the recorded attempts of address a as they are,
\* and the outcome of an attempt of a (200, 403 or 429) is determined by
\* a's own recorded attempts, the clock and the PIN it sends; so the
\* outcomes a sees are the same whatever another address does.
C36_RateLimitPerAddress ==
    [][\A a \in Clients :
          /\ (pin_attempts'[a] # pin_attempts[a]
                  \/ pin_failures'[a] # pin_failures[a])
               => \E pin \in LockoutPins : Attempt(a, pin)
          /\ \A pin \in LockoutPins :
                Attempt(a, pin)
                => /\ resp'.status \in OwnOutcome(a, pin)
                   /\ \A b \in Clients \ {a} :
                         /\ pin_attempts'[b] = pin_attempts[b]
                         /\ pin_failures'[b] = pin_failures[b]]_vars

\* one address is locked out after five wrong PINs while the other, which
\* made one wrong attempt, has had the correct PIN accepted
C36_Witness ==
    /\ Len(pin_attempts["10.0.0.2"]) = 5
    /\ Len(pin_failures["10.0.0.2"]) = 5
    /\ Len(pin_attempts["10.0.0.1"]) = 2
    /\ Len(pin_failures["10.0.0.1"]) = 1
    /\ resp = PinResponse("verify_pin", 200, <<>>, TRUE)

\* C37: from an empty store and without restore, every ShiftStats row has
\* total_shippers = total_pass + total_fail in every reachable state.
C37_ShippersArePassPlusFail ==
    \A d \in DOMAIN shift_stats :
        shift_stats[d].total_shippers
            = shift_stats[d].total_pass + shift_stats[d].total_fail

\* a job with one PASS and one FAIL has been ended and rolled up
C37_Witness ==
    /\ resp.op = "end" /\ resp.status = 200
    /\ \E d \in DOMAIN shift_stats :
          /\ shift_stats[d].total_shippers = 2
          /\ shift_stats[d].total_pass = 1
          /\ shift_stats[d].total_fail = 1

\* the place of event e in the order of commits: jobs are created in the
\* order of their keys, a job's scans are committed between its start and
\* its end in the order of their keys, and the next job starts after the end
CommitKey(e) ==
    IF e.event = "job_started" THEN <<e.data, 0, 0>>
    ELSE IF e.event = "scan" THEN <<scans[e.data].job_id, 1, e.data>>
    ELSE <<e.data, 2, 0>>

Earlier(k, l) ==
    \/ k[1] < l[1]
    \/ k[1] = l[1] /\ k[2] < l[2]
    \/ k[1] = l[1] /\ k[2] = l[2] /\ k[3] < l[3]

\* every queue holds its events in the order of their commits
QueuesInCommitOrder ==
    \A i \in DOMAIN sse_queues :
        \A k, l \in DOMAIN sse_queues[i].q :
            k < l => Earlier(CommitKey(sse_queues[i].q[k]),
                             CommitKey(sse_queues[i].q[l]))

\* the event of the change this step commits, if it commits one
Committed ==
    IF Len(jobs') > Len(jobs)
    THEN {[event |-> "job_started", data |-> Len(jobs')]}
    ELSE IF Len(scans') > Len(scans)
    THEN {[event |-> "scan", data |-> Len(scans')]}
    ELSE IF jobs' # jobs
    THEN {[event |-> "job_ended", data |-> FirstActive]}
    ELSE {}

\* C38: every subscriber receives the events in the order in which the
\* changes were committed.  A step that commits a change puts its event at
\* the tail of every registered queue in the same step, before any other
\* request can commit; nothing else is ever put on a queue; a subscriber is
\* sent the head of its queue; so every queue holds, and every subscriber
\* is sent, the events in commit order.
C38_EventsInCommitOrder ==
    [][/\ QueuesInCommitOrder'
       /\ \A c \in Registered \cap Registered' :
             LET q == sse_queues[QueueIndex(c)].q
                 r == sse_queues'[QueueIndex(c)'].q
             IN \/ Committed = {} /\ r = q
                \/ Committed = {} /\ q # <<>> /\ r = Tail(q)
                \/ \E e \in Committed : r = Append(q, e)]_vars

\* two subscribers hold the start of a job and a scan of it, in that order,
\* one of them having been sent the start already
C38_Witness ==
    /\ Len(sse_queues) = 2
    /\ Len(sse_queues[1].q) = 2
    /\ sse_queues[1].q[1].event = "job_started"
    /\ sse_queues[1].q[2].event = "scan"
    /\ Len(sse_queues[2].q) = 1
    /\ sse_queues[2].q[1].event = "scan"

\* the cached counters of a job
Counters(job) ==
    <<job.cached_total_scans, job.cached_pass_count, job.cached_fail_count>>

\* C39: once a Job has ended (is_active = false) no step inserts a Scan for
\* it or changes its cached counters; the job that owns a newly committed
\* Scan is active before and after the commit.
C39_EndedJobGetsNoScans ==
    [][/\ \A j \in DOMAIN jobs :
             ~jobs[j].is_active
             => /\ j \in DOMAIN jobs'
                /\ Counters(jobs'[j]) = Counters(jobs[j])
       /\ \A k \in DOMAIN scans' \ DOMAIN scans :
             /\ scans'[k].job_id \in DOMAIN jobs
             /\ jobs[scans'[k].job_id].is_active
             /\ jobs'[scans'[k].job_id].is_active]_vars

\* the first job was ended with one scan, and a scan made since went to the
\* second job
C39_Witness ==
    /\ Len(jobs) = 2
    /\ ~jobs[1].is_active
    /\ jobs[1].cached_total_scans = 1
    /\ jobs[2].is_active
    /\ jobs[2].cached_total_scans = 1
    /\ Len(scans) = 2
    /\ scans[1].job_id = 1
    /\ scans[2].job_id = 2
    /\ resp.op = "scan" /\ resp.status = 200

====
